---- MODULE Spec2Model ----
(***************************************************************************)
(* The pattern-based code analyzer of src/lib/ai-service.ts (CodeAnalyzer). *)
(*                                                                         *)
(* A JavaScript string is a sequence of one-character strings; indices in  *)
(* the operators below are the 0-based indices of the source (s[i+1] is    *)
(* the character at index i).  Regular expressions are interpreted by a    *)
(* backtracking matcher over that representation.                          *)
(***************************************************************************)
EXTENDS Integers, Sequences, FiniteSets, TLC

VARIABLES
    files,       \* the argument of analyzeFiles: a sequence of file records
    pc,          \* position of the current analyzeFiles call
    idx,         \* number of files the for-loop has completed
    findings,    \* the call's local findings array
    metrics,     \* the call's local metrics object
    security,    \* result.security once returned
    coverage,    \* result.coverage once returned
    lastIndex,   \* lastIndex of every regex object of the rule catalog
    callNo,      \* how many analyzeFiles calls were started on the instance
    firstResult, \* findings and metrics returned by the first call
    peer,        \* a second, concurrent analyzeFiles call on the instance:
                 \* its argument, position and locals
    objects,      \* api.ts: the Project and AnalysisRun objects, by id
    mockProjects, \* api.ts: the project store, an array of references
    mockRuns,     \* api.ts: the run store, an array of references
    tasks,        \* api.ts: the pending timers with what their callbacks capture
    nextId,       \* api.ts: the number the next generated id or timer gets
    randoms,      \* api.ts: the values Math.random() can return
    budget,       \* api.ts: how many calls of each method are still to be made
    probe         \* one application of a helper: its arguments and its result

analyzerVars == <<files, pc, idx, findings, metrics, security, coverage,
                  lastIndex, callNo, firstResult, peer>>

apiVars == <<objects, mockProjects, mockRuns, tasks, nextId, randoms, budget>>

vars == <<analyzerVars, apiVars, probe>>

---------------------------------------------------------------------------
(* Bounds of the model. *)

\* largest number of file records in one input list
MaxFiles == 2
\* largest number of fragments a generated file content is composed of
MaxFrags == 3
\* number of analyzeFiles calls made on one analyzer instance
MaxCalls == 2
\* Math.random() yields one of RandDen values
RandDen == 4
\* the number of files of a large project
LargeProject == 50

---------------------------------------------------------------------------
(* String primitives. *)

LowerOf ==
    [c \in {"A","B","C","D","E","F","G","H","I","J","K","L","M","N","O","P",
            "Q","R","S","T","U","V","W","X","Y","Z"} |->
       CASE c = "A" -> "a" [] c = "B" -> "b" [] c = "C" -> "c" [] c = "D" -> "d"
         [] c = "E" -> "e" [] c = "F" -> "f" [] c = "G" -> "g" [] c = "H" -> "h"
         [] c = "I" -> "i" [] c = "J" -> "j" [] c = "K" -> "k" [] c = "L" -> "l"
         [] c = "M" -> "m" [] c = "N" -> "n" [] c = "O" -> "o" [] c = "P" -> "p"
         [] c = "Q" -> "q" [] c = "R" -> "r" [] c = "S" -> "s" [] c = "T" -> "t"
         [] c = "U" -> "u" [] c = "V" -> "v" [] c = "W" -> "w" [] c = "X" -> "x"
         [] c = "Y" -> "y" [] c = "Z" -> "z"]

\* String.prototype.toLowerCase
toLowerCase(s) ==
    [i \in 1..Len(s) |-> IF s[i] \in DOMAIN LowerOf THEN LowerOf[s[i]] ELSE s[i]]

\* String.prototype.substring(from, to), 0 <= from <= to <= length
substring(s, from, to) == SubSeq(s, from + 1, to)

\* the least element of a non-empty set of integers
SetMin(S) == CHOOSE x \in S : \A y \in S : x <= y

\* String.prototype.indexOf for a one-character needle, from index i; -1 if absent
indexOf(s, c, i) ==
    LET hits == {j \in i..(Len(s) - 1) : s[j + 1] = c} IN
    IF hits = {} THEN -1 ELSE SetMin(hits)

\* String.prototype.split(sep) for a one-character separator
RECURSIVE split(_, _)
split(s, sep) ==
    LET p == indexOf(s, sep, 0) IN
    IF p = -1 THEN <<s>>
    ELSE <<substring(s, 0, p)>> \o split(substring(s, p + 1, Len(s)), sep)

\* Array.prototype.join(sep) on an array of strings, sep a string
RECURSIVE join(_, _)
join(parts, sep) ==
    IF Len(parts) = 0 THEN <<>>
    ELSE IF Len(parts) = 1 THEN parts[1]
    ELSE parts[1] \o sep \o join(Tail(parts), sep)

\* String.prototype.startsWith
startsWith(s, prefix) ==
    /\ Len(prefix) <= Len(s)
    /\ SubSeq(s, 1, Len(prefix)) = prefix

\* String.prototype.includes
includes(s, sub) ==
    \E i \in 0..(Len(s) - Len(sub)) : SubSeq(s, i + 1, i + Len(sub)) = sub

\* the characters the \s class and trim() treat as white space
WhiteSpace == {" ", "\t", "\n", "\r", "\f"}

\* the characters the . class does not match
LineTerminators == {"\n", "\r"}

\* String.prototype.trim
RECURSIVE trimStart(_)
trimStart(s) ==
    IF Len(s) > 0 /\ s[1] \in WhiteSpace THEN trimStart(Tail(s)) ELSE s

RECURSIVE trimEnd(_)
trimEnd(s) ==
    IF Len(s) > 0 /\ s[Len(s)] \in WhiteSpace
    THEN trimEnd(SubSeq(s, 1, Len(s) - 1)) ELSE s

trim(s) == trimEnd(trimStart(s))

DigitChars == <<"0","1","2","3","4","5","6","7","8","9">>

\* the decimal text of a non-negative integer, as template literals produce it
RECURSIVE NumberToString(_)
NumberToString(n) ==
    IF n < 10 THEN <<DigitChars[n + 1]>>
    ELSE NumberToString(n \div 10) \o <<DigitChars[(n % 10) + 1]>>

---------------------------------------------------------------------------
(* Regular expressions: an ordered list of alternatives, each a sequence   *)
(* of quantified one-character atoms (greedy), matched with backtracking.  *)

Letters ==
    {"a","b","c","d","e","f","g","h","i","j","k","l","m","n","o","p","q","r",
     "s","t","u","v","w","x","y","z"}
Digits == {"0","1","2","3","4","5","6","7","8","9"}
WordChars == Letters \cup Digits \cup {"_"}

\* atom constructors: min occurrences, many = unbounded repetition
Lit(c)             == [neg |-> FALSE, set |-> {c}, min |-> 1, many |-> FALSE, eoi |-> FALSE]
Cls(S, min, many)  == [neg |-> FALSE, set |-> S,   min |-> min, many |-> many, eoi |-> FALSE]
NotCls(S, min, many) == [neg |-> TRUE, set |-> S,  min |-> min, many |-> many, eoi |-> FALSE]
\* the $ assertion (no multiline flag): the end of the input
Eoi                == [neg |-> FALSE, set |-> {}, min |-> 0, many |-> FALSE, eoi |-> TRUE]
Lits(cs)           == [i \in 1..Len(cs) |-> Lit(cs[i])]

AtomAccepts(a, c) == (c \in a.set) # a.neg

\* the number of consecutive characters from index i the atom accepts
RunLength(a, s, i) ==
    LET stops == {j \in i..(Len(s) - 1) : ~AtomAccepts(a, s[j + 1])} IN
    IF stops = {} THEN Len(s) - i ELSE SetMin(stops) - i

\* The atom boundaries <<start of atom k, ..., end of match>> of the match of
\* atoms[k..] at index i that backtracking finds first, or <<>> when none.
RECURSIVE MatchAtoms(_, _, _, _)
MatchAtoms(atoms, k, s, i) ==
    IF k > Len(atoms) THEN <<i>>
    ELSE LET a == atoms[k] IN
         IF a.eoi
         THEN IF i = Len(s)
              THEN LET r == MatchAtoms(atoms, k + 1, s, i) IN
                   IF r = <<>> THEN <<>> ELSE <<i>> \o r
              ELSE <<>>
         ELSE LET most == IF a.many THEN RunLength(a, s, i)
                          ELSE IF i < Len(s) /\ AtomAccepts(a, s[i + 1]) THEN 1
                          ELSE 0
                  \* greedy with backtracking: the largest repetition count
                  \* after which the remaining atoms match
                  tries == {<<n, MatchAtoms(atoms, k + 1, s, i + n)>> :
                              n \in a.min..most}
                  good  == {t \in tries : t[2] # <<>>}
              IN IF good = {} THEN <<>>
                 ELSE <<i>> \o (CHOOSE t \in good : \A u \in good : u[1] <= t[1])[2]

NoMatch == [index |-> -1, end |-> -1, g1 |-> <<0, 0>>]

\* the match of the regex at exactly index i: first alternative that matches
RECURSIVE ExecAt(_, _, _, _)
ExecAt(re, a, s, i) ==
    IF a > Len(re.alts) THEN NoMatch
    ELSE LET alt == re.alts[a]
             b   == MatchAtoms(alt.atoms, 1, s, i)
         IN IF b = <<>> THEN ExecAt(re, a + 1, s, i)
            ELSE [index |-> i, end |-> b[Len(b)],
                  g1 |-> IF alt.group = <<0, 0>> THEN <<0, 0>>
                         ELSE <<b[alt.group[1]], b[alt.group[2] + 1]>>]

\* RegExpBuiltinExec of a global regex: the leftmost match at or after lastIndex
RegExpExec(re, s, from) ==
    LET at == {i \in from..Len(s) : ExecAt(re, 1, s, i) # NoMatch} IN
    IF at = {} THEN NoMatch ELSE ExecAt(re, 1, s, SetMin(at))

\* the successive matches of a global regex scanning from index `from`;
\* an empty match advances the scan position by one
RECURSIVE ScanAll(_, _, _)
ScanAll(re, s, from) ==
    LET m == RegExpExec(re, s, from) IN
    IF m.index = -1 THEN <<>>
    ELSE <<m>> \o ScanAll(re, s, IF m.end = m.index THEN m.end + 1 ELSE m.end)

\* String.prototype.matchAll(re): the iteration runs on a clone of re that
\* starts at re.lastIndex; with the i flag both sides are case-folded
matchAll(str, re, reLastIndex) ==
    ScanAll(re, IF re.ignoreCase THEN toLowerCase(str) ELSE str, reLastIndex)

---------------------------------------------------------------------------
(* The rule catalog (instance fields securityPatterns, qualityPatterns).   *)
(* All regexes carry the flags g and i, so their literals are case-folded. *)

Regex(alts) == [alts |-> alts, ignoreCase |-> TRUE]
Alt(atoms)  == [atoms |-> atoms, group |-> <<0, 0>>]
\* an alternative whose capture group 1 spans atoms from..to
AltGroup(atoms, from, to) == [atoms |-> atoms, group |-> <<from, to>>]

Ws0 == Cls(WhiteSpace, 0, TRUE)
Ws1 == Cls(WhiteSpace, 1, TRUE)
Dot0 == NotCls(LineTerminators, 0, TRUE)

\* /eval\s*\(/gi
EvalRegex ==
    Regex(<<Alt(Lits(<<"e","v","a","l">>) \o <<Ws0, Lit("(")>>)>>)

\* /innerHTML\s*=\s*[^;]+\+/gi
InnerHtmlRegex ==
    Regex(<<Alt(Lits(<<"i","n","n","e","r","h","t","m","l">>)
                \o <<Ws0, Lit("="), Ws0, NotCls({";"}, 1, TRUE), Lit("+")>>)>>)

\* /document\.write\s*\(/gi
DocumentWriteRegex ==
    Regex(<<Alt(Lits(<<"d","o","c","u","m","e","n","t",".","w","r","i","t","e">>)
                \o <<Ws0, Lit("(")>>)>>)

\* /SELECT\s+.*\s+FROM\s+.*\s+WHERE\s+.*\+/gi
SqlRegex ==
    Regex(<<Alt(Lits(<<"s","e","l","e","c","t">>) \o <<Ws1, Dot0, Ws1>>
                \o Lits(<<"f","r","o","m">>) \o <<Ws1, Dot0, Ws1>>
                \o Lits(<<"w","h","e","r","e">>) \o <<Ws1, Dot0, Lit("+")>>)>>)

\* /password\s*=\s*["'][^"']+["']/gi
PasswordRegex ==
    Regex(<<Alt(Lits(<<"p","a","s","s","w","o","r","d">>)
                \o <<Ws0, Lit("="), Ws0, Cls({"\"", "'"}, 1, FALSE),
                     NotCls({"\"", "'"}, 1, TRUE), Cls({"\"", "'"}, 1, FALSE)>>)>>)

\* /Math\.random$$$$/gi : the literal followed by four end-of-input assertions
MathRandomRegex ==
    Regex(<<Alt(Lits(<<"m","a","t","h",".","r","a","n","d","o","m">>)
                \o <<Eoi, Eoi, Eoi, Eoi>>)>>)

\* /console\.log\s*$$/gi : the parenthesis replaced by end-of-input assertions
ConsoleLogRegexEndAnchored ==
    Regex(<<Alt(Lits(<<"c","o","n","s","o","l","e",".","l","o","g">>)
                \o <<Ws0, Eoi, Eoi>>)>>)

\* /console\.log\s*\(/gi
ConsoleLogRegex ==
    Regex(<<Alt(Lits(<<"c","o","n","s","o","l","e",".","l","o","g">>)
                \o <<Ws0, Lit("(")>>)>>)

\* /debugger;/gi
DebuggerRegex ==
    Regex(<<Alt(Lits(<<"d","e","b","u","g","g","e","r",";">>))>>)

\* /TODO|FIXME|HACK/gi
TodoRegex ==
    Regex(<<Alt(Lits(<<"t","o","d","o">>)),
            Alt(Lits(<<"f","i","x","m","e">>)),
            Alt(Lits(<<"h","a","c","k">>))>>)

securityPatterns ==
    << [pattern |-> EvalRegex, title |-> "Use of eval()",
        description |-> "Use of eval() can lead to code injection vulnerabilities",
        severity |-> "high", cweId |-> 95,
        recommendation |-> "Avoid using eval(). Use safer alternatives like JSON.parse() for data parsing."],
       [pattern |-> InnerHtmlRegex, title |-> "Potential XSS via innerHTML",
        description |-> "Dynamic content assignment to innerHTML without sanitization",
        severity |-> "high", cweId |-> 79,
        recommendation |-> "Use textContent or sanitize HTML content before assignment."],
       [pattern |-> DocumentWriteRegex, title |-> "Use of document.write()",
        description |-> "document.write() can be exploited for XSS attacks",
        severity |-> "medium", cweId |-> 79,
        recommendation |-> "Use modern DOM manipulation methods instead of document.write()."],
       [pattern |-> SqlRegex, title |-> "Potential SQL Injection",
        description |-> "SQL query construction using string concatenation",
        severity |-> "critical", cweId |-> 89,
        recommendation |-> "Use parameterized queries or prepared statements."],
       [pattern |-> PasswordRegex, title |-> "Hardcoded Password",
        description |-> "Password appears to be hardcoded in source code",
        severity |-> "high", cweId |-> 798,
        recommendation |-> "Store passwords in environment variables or secure configuration."],
       [pattern |-> MathRandomRegex, title |-> "Weak Random Number Generation",
        description |-> "Math.random() is not cryptographically secure",
        severity |-> "medium", cweId |-> 338,
        recommendation |-> "Use crypto.getRandomValues() for security-sensitive random numbers."] >>

qualityPatterns ==
    << [pattern |-> ConsoleLogRegex, title |-> "Console Statement",
        description |-> "Console statements should be removed from production code",
        severity |-> "low",
        recommendation |-> "Remove console statements or use proper logging framework."],
       [pattern |-> DebuggerRegex, title |-> "Debugger Statement",
        description |-> "Debugger statements should not be present in production code",
        severity |-> "medium",
        recommendation |-> "Remove debugger statements before deployment."],
       [pattern |-> TodoRegex, title |-> "TODO/FIXME Comment",
        description |-> "Unresolved TODO or FIXME comment found",
        severity |-> "low",
        recommendation |-> "Address TODO/FIXME comments or create proper issue tracking."] >>

\* the titles of the catalog, in catalog order
SecurityTitles == [k \in 1..Len(securityPatterns) |-> securityPatterns[k].title]
QualityTitles  == [k \in 1..Len(qualityPatterns) |-> qualityPatterns[k].title]
CatalogTitles  == {SecurityTitles[k] : k \in 1..Len(SecurityTitles)}
                  \cup {QualityTitles[k] : k \in 1..Len(QualityTitles)}

\* the characters of each catalog title
TitleChars(t) ==
    CASE t = "Use of eval()" ->
            <<"U","s","e"," ","o","f"," ","e","v","a","l","(",")">>
      [] t = "Potential XSS via innerHTML" ->
            <<"P","o","t","e","n","t","i","a","l"," ","X","S","S"," ","v","i","a"," ","i","n","n","e","r","H","T","M","L">>
      [] t = "Use of document.write()" ->
            <<"U","s","e"," ","o","f"," ","d","o","c","u","m","e","n","t",".","w","r","i","t","e","(",")">>
      [] t = "Potential SQL Injection" ->
            <<"P","o","t","e","n","t","i","a","l"," ","S","Q","L"," ","I","n","j","e","c","t","i","o","n">>
      [] t = "Hardcoded Password" ->
            <<"H","a","r","d","c","o","d","e","d"," ","P","a","s","s","w","o","r","d">>
      [] t = "Weak Random Number Generation" ->
            <<"W","e","a","k"," ","R","a","n","d","o","m"," ","N","u","m","b","e","r"," ","G","e","n","e","r","a","t","i","o","n">>
      [] t = "Console Statement" ->
            <<"C","o","n","s","o","l","e"," ","S","t","a","t","e","m","e","n","t">>
      [] t = "Debugger Statement" ->
            <<"D","e","b","u","g","g","e","r"," ","S","t","a","t","e","m","e","n","t">>
      [] t = "TODO/FIXME Comment" ->
            <<"T","O","D","O","/","F","I","X","M","E"," ","C","o","m","m","e","n","t">>

\* String.prototype.replace(/\s+/g, r): every run of white space becomes r
RECURSIVE replaceWhiteSpace(_, _)
replaceWhiteSpace(s, r) ==
    IF Len(s) = 0 THEN <<>>
    ELSE IF s[1] \in WhiteSpace THEN r \o replaceWhiteSpace(trimStart(s), r)
    ELSE <<s[1]>> \o replaceWhiteSpace(Tail(s), r)

\* concatenation of a sequence of sequences
RECURSIVE Flatten(_)
Flatten(ss) == IF Len(ss) = 0 THEN <<>> ELSE ss[1] \o Flatten(Tail(ss))

---------------------------------------------------------------------------
(* Helpers of CodeAnalyzer. *)

\* a line number counted from 0
getLineNumberZeroBased(content, index) ==
    Len(split(substring(content, 0, index), "\n")) - 1

\* getLineNumber(content, index)
getLineNumber(content, index) == Len(split(substring(content, 0, index), "\n"))

Max(a, b) == IF a > b THEN a ELSE b
Min(a, b) == IF a < b THEN a ELSE b

\* the default value of getCodeSnippet's context parameter
SnippetContext == 2

\* a snippet that starts one line late (lineNumber taken as an index)
getCodeSnippetFromIndex(lines, lineNumber) ==
    LET start == Max(0, lineNumber - SnippetContext)
        end   == Min(Len(lines), lineNumber + SnippetContext)
    IN join(SubSeq(lines, start + 1, end), <<"\n">>)

\* getCodeSnippet(lines, lineNumber, context = 2)
getCodeSnippet(lines, lineNumber) ==
    LET start == Max(0, lineNumber - SnippetContext - 1)
        end   == Min(Len(lines), lineNumber + SnippetContext)
    IN join(SubSeq(lines, start + 1, end), <<"\n">>)

\* findFunctionEnd(content, startIndex): the loop from index i on
RECURSIVE FindFunctionEndLoop(_, _, _, _)
FindFunctionEndLoop(content, i, braceCount, inFunction) ==
    IF i >= Len(content) THEN Len(content)
    ELSE LET char == content[i + 1] IN
         IF char = "{" THEN FindFunctionEndLoop(content, i + 1, braceCount + 1, TRUE)
         ELSE IF char = "}"
              THEN IF inFunction /\ braceCount - 1 = 0 THEN i
                   ELSE FindFunctionEndLoop(content, i + 1, braceCount - 1, inFunction)
              ELSE FindFunctionEndLoop(content, i + 1, braceCount, inFunction)

findFunctionEnd(content, startIndex) ==
    FindFunctionEndLoop(content, startIndex, 0, FALSE)

---------------------------------------------------------------------------
(* analyzeFile and the heuristics it calls. *)

\* a Finding that carries the severity of the category, not of the rule
PatternFindingSeverityOfCategory(file, lines, pattern, category, match) ==
    LET lineNumber == getLineNumber(file.content, match.index) IN
    [id |-> file.path \o <<"_">> \o NumberToString(lineNumber) \o <<"_">>
            \o replaceWhiteSpace(TitleChars(pattern.title), <<"_">>),
     title |-> pattern.title,
     description |-> <<pattern.description>>,
     category |-> category,
     severity |-> IF category = "security" THEN "high" ELSE "low",
     file |-> file.path,
     line |-> lineNumber,
     codeSnippet |-> getCodeSnippet(lines, lineNumber),
     recommendation |-> pattern.recommendation,
     rule |-> replaceWhiteSpace(toLowerCase(TitleChars(pattern.title)), <<"-">>)]

\* a Finding whose id names the file and the rule only
PatternFindingIdWithoutLine(file, lines, pattern, category, match) ==
    LET lineNumber == getLineNumber(file.content, match.index) IN
    [id |-> file.path \o <<"_">>
            \o replaceWhiteSpace(TitleChars(pattern.title), <<"_">>),
     title |-> pattern.title,
     description |-> <<pattern.description>>,
     category |-> category,
     severity |-> pattern.severity,
     file |-> file.path,
     line |-> lineNumber,
     codeSnippet |-> getCodeSnippet(lines, lineNumber),
     recommendation |-> pattern.recommendation,
     rule |-> replaceWhiteSpace(toLowerCase(TitleChars(pattern.title)), <<"-">>)]

\* the Finding pushed for one match of a catalog rule (lines 260-271, 282-293)
PatternFinding(file, lines, pattern, category, match) ==
    LET lineNumber == getLineNumber(file.content, match.index) IN
    [id |-> file.path \o <<"_">> \o NumberToString(lineNumber) \o <<"_">>
            \o replaceWhiteSpace(TitleChars(pattern.title), <<"_">>),
     title |-> pattern.title,
     description |-> <<pattern.description>>,
     category |-> category,
     severity |-> pattern.severity,
     file |-> file.path,
     line |-> lineNumber,
     codeSnippet |-> getCodeSnippet(lines, lineNumber),
     recommendation |-> pattern.recommendation,
     rule |-> replaceWhiteSpace(toLowerCase(TitleChars(pattern.title)), <<"-">>)]

\* one for-loop over a pattern list: the findings of every match of every
\* pattern, patterns in list order, matches in the order matchAll yields them
PatternLoop(file, lines, patterns, category, li) ==
    Flatten([k \in 1..Len(patterns) |->
        LET matches == matchAll(file.content, patterns[k].pattern,
                                li[patterns[k].title])
        IN [j \in 1..Len(matches) |->
              PatternFinding(file, lines, patterns[k], category, matches[j])]])

\* /function\s+(\w+)\s*$$[^)]*$$\s*{/gi
functionRegex ==
    Regex(<<AltGroup(Lits(<<"f","u","n","c","t","i","o","n">>)
                     \o <<Ws1, Cls(WordChars, 1, TRUE), Ws0, Eoi, Eoi,
                          NotCls({")"}, 0, TRUE), Eoi, Eoi, Ws0, Lit("{")>>,
                     10, 10)>>)

\* /if|for|while|switch|catch|\?|&&|\|\|/gi
ComplexityIndicatorRegex ==
    Regex(<<Alt(Lits(<<"i","f">>)), Alt(Lits(<<"f","o","r">>)),
            Alt(Lits(<<"w","h","i","l","e">>)),
            Alt(Lits(<<"s","w","i","t","c","h">>)),
            Alt(Lits(<<"c","a","t","c","h">>)), Alt(<<Lit("?")>>),
            Alt(Lits(<<"&","&">>)), Alt(Lits(<<"|","|">>))>>)

\* String.prototype.match(re) with a global regex: the number of matches
\* (null counts as 0 at both call sites)
MatchCount(str, re) == Len(matchAll(str, re, 0))

\* analyzeComplexity(file)
analyzeComplexity(file) ==
    LET lines   == split(file.content, "\n")
        matches == matchAll(file.content, functionRegex, 0)
        One(match) ==
            LET lineNumber   == getLineNumber(file.content, match.index)
                functionName == substring(file.content, match.g1[1], match.g1[2])
                functionEnd  == findFunctionEnd(file.content, match.index)
                functionCode == substring(file.content, match.index, functionEnd)
                complexity   == MatchCount(functionCode, ComplexityIndicatorRegex)
            IN IF complexity > 10
               THEN << [id |-> file.path \o <<"_">> \o NumberToString(lineNumber)
                               \o <<"_","c","o","m","p","l","e","x","i","t","y">>,
                        title |-> "High Cyclomatic Complexity",
                        description |-> <<"Function '">> \o functionName
                                        \o <<"' has high complexity (">>
                                        \o NumberToString(complexity) \o <<")">>,
                        category |-> "maintainability",
                        severity |-> IF complexity > 20 THEN "high" ELSE "medium",
                        file |-> file.path,
                        line |-> lineNumber,
                        codeSnippet |-> getCodeSnippet(lines, lineNumber),
                        recommendation |-> "Consider breaking this function into smaller, more focused functions.",
                        rule |-> <<"c","y","c","l","o","m","a","t","i","c","-",
                                   "c","o","m","p","l","e","x","i","t","y">>] >>
               ELSE <<>>
    IN Flatten([j \in 1..Len(matches) |-> One(matches[j])])

IdentStart == Letters \cup {"_", "$"}
IdentPart  == Letters \cup Digits \cup {"_", "$"}

\* /(?:var|let|const)\s+([a-zA-Z_$][a-zA-Z0-9_$]*)/gi
variableRegex ==
    Regex(<<AltGroup(Lits(<<"v","a","r">>)
                     \o <<Ws1, Cls(IdentStart, 1, FALSE), Cls(IdentPart, 0, TRUE)>>, 5, 6),
            AltGroup(Lits(<<"l","e","t">>)
                     \o <<Ws1, Cls(IdentStart, 1, FALSE), Cls(IdentPart, 0, TRUE)>>, 5, 6),
            AltGroup(Lits(<<"c","o","n","s","t">>)
                     \o <<Ws1, Cls(IdentStart, 1, FALSE), Cls(IdentPart, 0, TRUE)>>, 7, 8)>>)

\* an allow-list of the loop counters only
AllowedShortNamesLoopOnly == {<<"i">>, <<"j">>, <<"k">>}

\* the single-letter names analyzeNaming accepts
AllowedShortNames == {<<"i">>, <<"j">>, <<"k">>, <<"x">>, <<"y">>, <<"z">>}

\* analyzeNaming(file)
analyzeNaming(file) ==
    LET lines   == split(file.content, "\n")
        matches == matchAll(file.content, variableRegex, 0)
        One(match) ==
            LET variableName == substring(file.content, match.g1[1], match.g1[2])
                lineNumber   == getLineNumber(file.content, match.index)
            IN IF Len(variableName) = 1 /\ variableName \notin AllowedShortNames
               THEN << [id |-> file.path \o <<"_">> \o NumberToString(lineNumber)
                               \o <<"_","n","a","m","i","n","g">>,
                        title |-> "Poor Variable Naming",
                        description |-> <<"Variable '">> \o variableName
                                        \o <<"' has a non-descriptive name">>,
                        category |-> "maintainability",
                        severity |-> "low",
                        file |-> file.path,
                        line |-> lineNumber,
                        codeSnippet |-> getCodeSnippet(lines, lineNumber),
                        recommendation |-> "Use descriptive variable names that clearly indicate their purpose.",
                        rule |-> <<"d","e","s","c","r","i","p","t","i","v","e","-",
                                   "n","a","m","i","n","g">>] >>
               ELSE <<>>
    IN Flatten([j \in 1..Len(matches) |-> One(matches[j])])

\* trimmed lines longer than this take part in duplication detection
DuplicationMinLength == 20

\* a lineMap that also groups comment lines
RECURSIVE BuildLineMapWithComments(_, _, _)
BuildLineMapWithComments(lines, k, lineMap) ==
    IF k > Len(lines) THEN lineMap
    ELSE LET trimmedLine == trim(lines[k]) IN
         IF Len(trimmedLine) > DuplicationMinLength
         THEN IF \E e \in 1..Len(lineMap) : lineMap[e].key = trimmedLine
              THEN BuildLineMapWithComments(lines, k + 1,
                     [e \in 1..Len(lineMap) |->
                        IF lineMap[e].key = trimmedLine
                        THEN [lineMap[e] EXCEPT !.lineNumbers = Append(@, k)]
                        ELSE lineMap[e]])
              ELSE BuildLineMapWithComments(lines, k + 1,
                     Append(lineMap, [key |-> trimmedLine, lineNumbers |-> <<k>>]))
         ELSE BuildLineMapWithComments(lines, k + 1, lineMap)

\* the lineMap of analyzeDuplication after lines k..: entries in insertion order
RECURSIVE BuildLineMap(_, _, _)
BuildLineMap(lines, k, lineMap) ==
    IF k > Len(lines) THEN lineMap
    ELSE LET trimmedLine == trim(lines[k]) IN
         IF /\ Len(trimmedLine) > DuplicationMinLength
            /\ ~startsWith(trimmedLine, <<"/", "/">>)
            /\ ~startsWith(trimmedLine, <<"*">>)
         THEN IF \E e \in 1..Len(lineMap) : lineMap[e].key = trimmedLine
              THEN BuildLineMap(lines, k + 1,
                     [e \in 1..Len(lineMap) |->
                        IF lineMap[e].key = trimmedLine
                        THEN [lineMap[e] EXCEPT !.lineNumbers = Append(@, k)]
                        ELSE lineMap[e]])
              ELSE BuildLineMap(lines, k + 1,
                     Append(lineMap, [key |-> trimmedLine, lineNumbers |-> <<k>>]))
         ELSE BuildLineMap(lines, k + 1, lineMap)

\* a group test that also accepts a single occurrence
IsDuplicatedFromOne(lineNumbers) == Len(lineNumbers) >= 1

\* lineNumbers.length > 1 (line 391)
IsDuplicated(lineNumbers) == Len(lineNumbers) > 1

\* analyzeDuplication(file)
analyzeDuplication(file) ==
    LET lines   == split(file.content, "\n")
        lineMap == BuildLineMap(lines, 1, <<>>)
        One(e) ==
            IF IsDuplicated(e.lineNumbers)
            THEN << [id |-> file.path
                            \o <<"_","d","u","p","l","i","c","a","t","i","o","n","_">>
                            \o NumberToString(e.lineNumbers[1]),
                     title |-> "Code Duplication",
                     description |-> <<"Identical code found on lines ">>
                                     \o join([n \in 1..Len(e.lineNumbers) |->
                                                NumberToString(e.lineNumbers[n])],
                                             <<",", " ">>),
                     category |-> "maintainability",
                     severity |-> "medium",
                     file |-> file.path,
                     line |-> e.lineNumbers[1],
                     codeSnippet |-> e.key,
                     recommendation |-> "Extract duplicated code into a reusable function or constant.",
                     rule |-> <<"n","o","-","d","u","p","l","i","c","a","t","i","o","n">>] >>
            ELSE <<>>
    IN Flatten([j \in 1..Len(lineMap) |-> One(lineMap[j])])

\* the security loop of analyzeFile (lines 254-273)
SecurityLoop(file, li) ==
    PatternLoop(file, split(file.content, "\n"), securityPatterns, "security", li)

\* the quality loop of analyzeFile (lines 276-295)
QualityLoop(file, li) ==
    PatternLoop(file, split(file.content, "\n"), qualityPatterns, "quality", li)

\* analyzeFile with the quality loop run before the security loop
analyzeFileQualityFirst(file, li) ==
    QualityLoop(file, li) \o SecurityLoop(file, li)
    \o analyzeComplexity(file) \o analyzeNaming(file) \o analyzeDuplication(file)

\* analyzeFile(file), with the catalog regexes' lastIndex values li
analyzeFile(file, li) ==
    SecurityLoop(file, li) \o QualityLoop(file, li)
    \o analyzeComplexity(file) \o analyzeNaming(file) \o analyzeDuplication(file)

\* A record whose content is not a string makes file.content.split (line 251)
\* raise a TypeError; such a record has no content field here.
analyzeFileThrows(file) == "content" \notin DOMAIN file

\* lastIndex as RegExp.prototype.test would leave it on the regex object:
\* the end of the first match at or after lastIndex, 0 when there is none
LastIndexAfterTest(str, re, reLastIndex) ==
    LET m == RegExpExec(re, IF re.ignoreCase THEN toLowerCase(str) ELSE str,
                        reLastIndex)
    IN IF m.index = -1 THEN 0 ELSE m.end

\* lastIndex of a catalog regex after analyzeFile has run matchAll with it:
\* matchAll iterates a clone, the regex object itself is not written
LastIndexAfterMatchAll(str, re, reLastIndex) == reLastIndex

---------------------------------------------------------------------------
(* JavaScript numbers of analyzeCoverage: IEEE 754 binary64 values, held   *)
(* exactly as sign, integer significand and binary exponent, or NaN or     *)
(* +Infinity; every arithmetic result is rounded to 53 significant bits,   *)
(* ties to even.  Significands are naturals of any size, written as        *)
(* little-endian sequences of limbs.                                       *)

LimbBits == 15
LimbBase == 2 ^ LimbBits

\* the bits of a binary64 significand
SignificandBits == 53

\* a natural without high zero limbs
BigNorm(a) ==
    LET nz == {i \in 1..Len(a) : a[i] # 0} IN
    IF nz = {} THEN <<>>
    ELSE SubSeq(a, 1, CHOOSE i \in nz : \A h \in nz : h <= i)

RECURSIVE BigFromNat(_)
BigFromNat(n) ==
    IF n = 0 THEN <<>> ELSE <<n % LimbBase>> \o BigFromNat(n \div LimbBase)

RECURSIVE BigToNat(_)
BigToNat(a) ==
    IF a = <<>> THEN 0 ELSE a[1] + LimbBase * BigToNat(Tail(a))

Limb(a, i) == IF i <= Len(a) THEN a[i] ELSE 0

RECURSIVE BigAddFrom(_, _, _, _)
BigAddFrom(a, b, i, carry) ==
    IF i > Len(a) /\ i > Len(b)
    THEN (IF carry = 0 THEN <<>> ELSE <<carry>>)
    ELSE LET t == Limb(a, i) + Limb(b, i) + carry IN
         <<t % LimbBase>> \o BigAddFrom(a, b, i + 1, t \div LimbBase)

BigAdd(a, b) == BigAddFrom(a, b, 1, 0)

RECURSIVE BigSubFrom(_, _, _, _)
BigSubFrom(a, b, i, borrow) ==
    IF i > Len(a) THEN <<>>
    ELSE LET t == Limb(a, i) - Limb(b, i) - borrow IN
         IF t < 0 THEN <<t + LimbBase>> \o BigSubFrom(a, b, i + 1, 1)
         ELSE <<t>> \o BigSubFrom(a, b, i + 1, 0)

\* a - b for a >= b
BigSub(a, b) == BigNorm(BigSubFrom(a, b, 1, 0))

\* -1, 0 or 1 as a < b, a = b or a > b
BigCmp(a, b) ==
    IF Len(a) # Len(b) THEN (IF Len(a) < Len(b) THEN -1 ELSE 1)
    ELSE LET d == {i \in 1..Len(a) : a[i] # b[i]} IN
         IF d = {} THEN 0
         ELSE LET top == CHOOSE i \in d : \A h \in d : h <= i IN
              IF a[top] < b[top] THEN -1 ELSE 1

RECURSIVE BigMulFrom(_, _, _, _)
BigMulFrom(a, k, i, carry) ==
    IF i > Len(a) THEN (IF carry = 0 THEN <<>> ELSE <<carry>>)
    ELSE LET t == a[i] * k + carry IN
         <<t % LimbBase>> \o BigMulFrom(a, k, i + 1, t \div LimbBase)

\* a * k for 0 < k <= LimbBase
BigMulSmall(a, k) == BigMulFrom(a, k, 1, 0)

RECURSIVE BigDivFrom(_, _, _, _)
BigDivFrom(a, n, i, r) ==
    IF i = 0 THEN [q |-> <<>>, r |-> r]
    ELSE LET cur  == r * LimbBase + a[i]
             rest == BigDivFrom(a, n, i - 1, cur % n)
         IN [q |-> Append(rest.q, cur \div n), r |-> rest.r]

\* quotient and remainder of a by n, 0 < n <= LimbBase
BigDivSmall(a, n) ==
    LET d == BigDivFrom(a, n, Len(a), 0) IN [q |-> BigNorm(d.q), r |-> d.r]

\* a * 2^sh
BigShl(a, sh) ==
    IF a = <<>> THEN <<>>
    ELSE [i \in 1..(sh \div LimbBits) |-> 0] \o BigMulSmall(a, 2 ^ (sh % LimbBits))

\* floor(a / 2^sh)
BigShr(a, sh) ==
    BigDivSmall(SubSeq(a, (sh \div LimbBits) + 1, Len(a)), 2 ^ (sh % LimbBits)).q

\* the number of bits of n, 0 < n < 2^30
SmallBitLength(n) == CHOOSE k \in 1..30 : 2 ^ (k - 1) <= n /\ n < 2 ^ k

BitLength(a) ==
    IF a = <<>> THEN 0
    ELSE LimbBits * (Len(a) - 1) + SmallBitLength(a[Len(a)])

\* the finite number (-1)^neg * mant * 2^exp
Fin(neg, mant, exp) ==
    IF mant = <<>> THEN [kind |-> "fin", neg |-> FALSE, mant |-> <<>>, exp |-> 0]
    ELSE [kind |-> "fin", neg |-> neg, mant |-> mant, exp |-> exp]
NaN      == [kind |-> "nan", neg |-> FALSE, mant |-> <<>>, exp |-> 0]
Infinity == [kind |-> "inf", neg |-> FALSE, mant |-> <<>>, exp |-> 0]

\* an integer as a number
FromInt(n) == Fin(n < 0, BigFromNat(IF n < 0 THEN 0 - n ELSE n), 0)

\* the integer a number of exponent >= 0 stands for
IntegerValue(x) ==
    (IF x.neg THEN -1 ELSE 1) * BigToNat(BigShl(x.mant, x.exp))

\* the binary64 nearest to (-1)^neg * (mant + f) * 2^exp, where 0 < f < 1 if
\* sticky and f = 0 otherwise: round to nearest, ties to even
RoundNearestEven(neg, mant, exp, sticky) ==
    LET len == BitLength(mant) IN
    IF len <= SignificandBits THEN Fin(neg, mant, exp)
    ELSE LET d    == len - SignificandBits
             kept == BigShr(mant, d)
             low  == BigSub(mant, BigShl(kept, d))
             c    == BigCmp(low, BigShl(<<1>>, d - 1))
             up   == c > 0 \/ (c = 0 /\ (sticky \/ kept[1] % 2 = 1))
         IN Fin(neg, IF up THEN BigAdd(kept, <<1>>) ELSE kept, exp + d)

\* a / b for non-negative integers a, b
Divide(a, b) ==
    IF b = 0 THEN (IF a = 0 THEN NaN ELSE Infinity)
    ELSE IF a = 0 THEN FromInt(0)
    ELSE LET sh == SignificandBits + 3 + SmallBitLength(b)
             d  == BigDivSmall(BigShl(BigFromNat(a), sh), b)
         IN RoundNearestEven(FALSE, d.q, 0 - sh, d.r # 0)

\* x * k for an integer k > 0
Times(x, k) ==
    IF x.kind = "fin"
    THEN RoundNearestEven(x.neg, BigMulSmall(x.mant, k), x.exp, FALSE)
    ELSE x

\* x + y, y finite
Plus(x, y) ==
    IF x.kind # "fin" THEN x
    ELSE LET e  == IF x.exp < y.exp THEN x.exp ELSE y.exp
             mx == BigShl(x.mant, x.exp - e)
             my == BigShl(y.mant, y.exp - e)
             c  == BigCmp(mx, my)
         IN IF x.neg = y.neg
            THEN RoundNearestEven(x.neg, BigAdd(mx, my), e, FALSE)
            ELSE IF c = 0 THEN FromInt(0)
            ELSE IF c > 0 THEN RoundNearestEven(x.neg, BigSub(mx, my), e, FALSE)
            ELSE RoundNearestEven(y.neg, BigSub(my, mx), e, FALSE)

\* x < y for finite x, y
Less(x, y) ==
    LET e  == IF x.exp < y.exp THEN x.exp ELSE y.exp
        c  == BigCmp(BigShl(x.mant, x.exp - e), BigShl(y.mant, y.exp - e))
    IN IF x.neg # y.neg THEN x.neg
       ELSE IF x.neg THEN c > 0 ELSE c < 0

\* Math.max(x, y), y finite
MathMax(x, y) ==
    IF x.kind = "nan" THEN NaN
    ELSE IF x.kind = "inf" THEN Infinity
    ELSE IF Less(x, y) THEN y ELSE x

\* Math.min(x, y), y finite
MathMin(x, y) ==
    IF x.kind = "nan" THEN NaN
    ELSE IF x.kind = "inf" THEN y
    ELSE IF Less(y, x) THEN y ELSE x

\* Math.floor(x)
MathFloor(x) ==
    IF x.kind # "fin" THEN x
    ELSE IF x.exp >= 0 THEN Fin(x.neg, BigShl(x.mant, x.exp), 0)
    ELSE LET q     == BigShr(x.mant, 0 - x.exp)
             whole == BigShl(q, 0 - x.exp) = x.mant
         IN IF x.neg /\ ~whole THEN Fin(TRUE, BigAdd(q, <<1>>), 0)
            ELSE Fin(x.neg, q, 0)

\* the least k with 2^k >= RandDen
RandBits == CHOOSE k \in 0..30 : 2 ^ k >= RandDen /\ \A h \in 0..(k - 1) : 2 ^ h < RandDen

\* Math.random(): the j-th value the generator yields from its hidden state
\* s, one of RandDen values of [0, 1) on a binary grid
MathRandom(s, j) == Fin(FALSE, BigFromNat((s + j) % RandDen), 0 - RandBits)

\* baseCoverage + (Math.random() - 0.5) * width, floored
Jittered(baseCoverage, r, width) ==
    MathFloor(Plus(baseCoverage, Times(Plus(r, Fin(TRUE, <<1>>, -1)), width)))

\* the clamp bounds of baseCoverage
MinCoverage == 30
MaxCoverage == 95

\* analyzeCoverage(files, metrics), Math.random() drawing from state s
analyzeCoverage(fs, m, s) ==
    LET testRatio    == Divide(m.testFiles, m.totalFiles)
        baseCoverage == MathMin(MathMax(Times(testRatio, 100), FromInt(MinCoverage)),
                                FromInt(MaxCoverage))
        n            == Len(fs)
    IN [overall   |-> MathFloor(baseCoverage),
        lines     |-> Jittered(baseCoverage, MathRandom(s, 3 * n), 10),
        functions |-> Jittered(baseCoverage, MathRandom(s, 3 * n + 1), 15),
        branches  |-> Jittered(baseCoverage, MathRandom(s, 3 * n + 2), 20),
        files     |-> [k \in 1..n |->
                         [path      |-> fs[k].path,
                          coverage  |-> Jittered(baseCoverage, MathRandom(s, 3 * (k - 1)), 30),
                          lines     |-> Jittered(baseCoverage, MathRandom(s, 3 * (k - 1) + 1), 25),
                          functions |-> Jittered(baseCoverage, MathRandom(s, 3 * (k - 1) + 2), 20)]]]

\* a filter that keeps every finding (no category test)
SecurityFindingsOfAnyCategory(fnd) == fnd

\* findings.filter((f) => f.category === "security") (line 411)
SecurityFindingsOf(fnd) == SelectSeq(fnd, LAMBDA f : f.category = "security")

\* a lookup of the first rule with the finding's severity
FindPatternBySeverity(f) ==
    LET hits == {k \in 1..Len(securityPatterns) :
                   securityPatterns[k].severity = f.severity}
    IN IF hits = {} THEN <<>> ELSE <<securityPatterns[SetMin(hits)]>>

\* this.securityPatterns.find((p) => p.title === finding.title) (line 425):
\* the first rule with the finding's title, <<>> for undefined
FindPattern(f) ==
    LET hits == {k \in 1..Len(securityPatterns) :
                   securityPatterns[k].title = f.title}
    IN IF hits = {} THEN <<>> ELSE <<securityPatterns[SetMin(hits)]>>

\* analyzeSecurityFindings(findings)
analyzeSecurityFindings(fnd) ==
    LET securityFindings == SecurityFindingsOf(fnd)
        Count(sev) == Cardinality({k \in 1..Len(securityFindings) :
                                     securityFindings[k].severity = sev})
        Vuln(f) ==
            IF FindPattern(f) # <<>>
            THEN LET pattern == FindPattern(f)[1]
                 IN << [title |-> f.title, description |-> f.description,
                        severity |-> f.severity, file |-> f.file, line |-> f.line,
                        cweId |-> pattern.cweId,
                        recommendation |-> f.recommendation] >>
            ELSE <<>>
    IN [critical |-> Count("critical"),
        high     |-> Count("high"),
        medium   |-> Count("medium"),
        low      |-> Count("low"),
        vulnerabilities |->
            Flatten([k \in 1..Len(securityFindings) |-> Vuln(securityFindings[k])])]

---------------------------------------------------------------------------
(* The metrics bookkeeping of one loop iteration of analyzeFiles. *)

\* file.name.split(".").pop()?.toLowerCase()
FileExtension(name) ==
    LET parts == split(name, ".") IN toLowerCase(parts[Len(parts)])

\* the lowercase property names every object literal inherits from
\* Object.prototype: languages is created as {} (line 208)
ConstructorKey == <<"c","o","n","s","t","r","u","c","t","o","r">>
ProtoKey == <<"_","_","p","r","o","t","o","_","_">>

\* String(Object), the text `Object + 1` starts with
ObjectFunctionText ==
    <<"f","u","n","c","t","i","o","n"," ","O","b","j","e","c","t","(",")"," ",
      "{"," ","[","n","a","t","i","v","e"," ","c","o","d","e","]"," ","}">>

\* metrics.languages[ext] = (metrics.languages[ext] || 0) + 1 (line 225).
\* The read finds inherited properties too: for "constructor" it yields the
\* function Object, which is truthy, and + 1 appends "1" to its text; the
\* value under that key is a string from then on.  For "__proto__" it
\* yields Object.prototype, and the write of the string "[object Object]1"
\* goes to the __proto__ setter, which ignores a value that is no object.
IncrementLanguage(languages, ext) ==
    IF ext = ProtoKey THEN languages
    ELSE [e \in (DOMAIN languages) \cup {ext} |->
            IF e # ext THEN languages[e]
            ELSE IF ext = ConstructorKey
                 THEN (IF ext \in DOMAIN languages THEN languages[ext]
                       ELSE ObjectFunctionText) \o <<"1">>
                 ELSE (IF ext \in DOMAIN languages THEN languages[ext] ELSE 0) + 1]

\* a test-file check that ignores case
IsTestFileIgnoringCase(name) ==
    \/ includes(toLowerCase(name), <<"t","e","s","t">>)
    \/ includes(toLowerCase(name), <<"s","p","e","c">>)

\* file.name.includes("test") || file.name.includes("spec")
IsTestFile(name) ==
    includes(name, <<"t","e","s","t">>) \/ includes(name, <<"s","p","e","c">>)

\* /if|for|while|switch|catch/gi
ComplexityKeywordRegex ==
    Regex(<<Alt(Lits(<<"i","f">>)), Alt(Lits(<<"f","o","r">>)),
            Alt(Lits(<<"w","h","i","l","e">>)),
            Alt(Lits(<<"s","w","i","t","c","h">>)),
            Alt(Lits(<<"c","a","t","c","h">>))>>)

\* a line count that leaves out the empty piece after a final newline
LineCountWithoutTrailingEmpty(content) ==
    LET parts == split(content, "\n") IN
    IF Len(parts) > 1 /\ parts[Len(parts)] = <<>> THEN Len(parts) - 1 ELSE Len(parts)

\* file.content.split("\n").length (line 219)
LineCount(content) == Len(split(content, "\n"))

\* lines 218-235: the metrics after one more file
UpdateMetrics(m, file) ==
    LET lines == LineCount(file.content)
        ext   == FileExtension(file.name)
    IN [m EXCEPT
          !.totalLines = @ + lines,
          !.languages  = IF Len(ext) > 0 THEN IncrementLanguage(@, ext) ELSE @,
          !.testFiles  = IF IsTestFile(file.name) THEN @ + 1 ELSE @,
          !.complexity = @ + MatchCount(file.content, ComplexityKeywordRegex)]

\* a metrics object that starts with the one line of an empty content
InitialMetricsOneLine(fs) ==
    [totalLines |-> 1, totalFiles |-> Len(fs), languages |-> <<>>,
     complexity |-> 0, duplicateLines |-> 0, testFiles |-> 0]

\* lines 205-212: the metrics object a call starts with
InitialMetrics(fs) ==
    [totalLines |-> 0, totalFiles |-> Len(fs), languages |-> <<>>,
     complexity |-> 0, duplicateLines |-> 0, testFiles |-> 0]

---------------------------------------------------------------------------
(* Inputs. *)

FileA ==
    [name |-> <<"a",".","j","s">>,
     path |-> <<"a",".","j","s">>,
     content |->
       <<"e","v","a","l","(","'","2","+","2","'",")","\n","c","o","n","s","o","l","e",".","l","o","g","(","1",")","\n">>]

FileDb ==
    [name |-> <<"d","b",".","t","e","s","t",".","t","s">>,
     path |-> <<"s","r","c","/","d","b",".","t","e","s","t",".","t","s">>,
     content |->
       <<"S","E","L","E","C","T"," ","a"," ","F","R","O","M"," ","t"," ","W","H","E","R","E"," ","b","+","\n","d","o","c","u","m","e","n","t",".","w","r","i","t","e"," ","(","x",")","\n","d","e","b","u","g","g","e","r",";">>]

FileReadme ==
    [name |-> <<"R","E","A","D","M","E">>,
     path |-> <<"R","E","A","D","M","E">>,
     content |->
       <<>>]

FileUtil ==
    [name |-> <<"u","t","i","l",".","s","p","e","c",".","J","S">>,
     path |-> <<"l","i","b","/","u","t","i","l",".","s","p","e","c",".","J","S">>,
     content |->
       <<"l","e","t"," ","q"," ","="," ","1","\n","l","e","t"," ","x"," ","="," ","2","\n","/","/"," ","T","O","D","O","\n","c","o","n","s","t"," ","t","o","t","a","l"," ","="," ","p","r","i","c","e"," ","+"," ","t","a","x"," ","*"," ","1",";","\n","i","f"," ","(","q",")"," ","{","\n"," "," ","c","o","n","s","t"," ","t","o","t","a","l"," ","="," ","p","r","i","c","e"," ","+"," ","t","a","x"," ","*"," ","1",";","\n","}">>]

FileLogin ==
    [name |-> <<"l","o","g","i","n",".","j","s">>,
     path |-> <<"l","o","g","i","n",".","j","s">>,
     content |->
       <<"p","a","s","s","w","o","r","d"," ","="," ","\"","a","b","c","\"","\n","e","l",".","i","n","n","e","r","H","T","M","L"," ","="," ","a"," ","+"," ","b",";","\n","x"," ","="," ","M","a","t","h",".","r","a","n","d","o","m">>]

\* a record whose content field is missing (undefined at run time)
FileMalformed ==
    [name |-> <<"b","a","d",".","j","s">>,
     path |-> <<"b","a","d",".","j","s">>]

\* two calls of Math.random(), neither at the end of the content
FileRng ==
    [name |-> <<"r","n","g",".","j","s">>,
     path |-> <<"s","r","c","/","r","n","g",".","j","s">>,
     content |->
       <<"a"," ","="," ","M","a","t","h",".","r","a","n","d","o","m","(",")","\n","b"," ","="," ","M","a","t","h",".","r","a","n","d","o","m","(",")"," ","*"," ","2","\n">>]

\* a function with eleven complexity indicators and one with two
FileComplex ==
    [name |-> <<"c","a","l","c",".","j","s">>,
     path |-> <<"s","r","c","/","c","a","l","c",".","j","s">>,
     content |->
       <<"f","u","n","c","t","i","o","n"," ","f","(","a",")","{","a","?","a","?","a","?","a","?","a","?","a","?","a","?","a","?","a","?","a","?","a","?","1",":","0","}","\n","f","u","n","c","t","i","o","n"," ","g","(",")","{","i","f","(","a","&","&","b",")","{","}","}">>]

\* declarations of q, x, Z and $
FileNames ==
    [name |-> <<"n","a","m","e","s",".","j","s">>,
     path |-> <<"s","r","c","/","n","a","m","e","s",".","j","s">>,
     content |->
       <<"l","e","t"," ","q"," ","="," ","1","\n","l","e","t"," ","x"," ","="," ","2","\n","c","o","n","s","t"," ","Z"," ","="," ","3","\n","v","a","r"," ","$"," ","="," ","4">>]

\* a long line on lines 3 and 7, a repeated comment, a repeated line of
\* exactly 20 characters and a long line that occurs once
FileDup ==
    [name |-> <<"d","u","p",".","j","s">>,
     path |-> <<"s","r","c","/","d","u","p",".","j","s">>,
     content |->
       <<"/","/"," ","n","o","t","e",":"," ","t","h","e"," ","s","a","m","e"," ","c","o","m","m","e","n","t","\n","/","/"," ","n","o","t","e",":"," ","t","h","e"," ","s","a","m","e"," ","c","o","m","m","e","n","t","\n","v","a","r"," ","t","o","t","a","l"," ","="," ","p","r","i","c","e"," ","+"," ","t","a","x",";","\n","v","a","r"," ","a","1"," ","="," ","b","2"," ","+"," ","c","3"," ","+"," ","1","\n","v","a","r"," ","a","1"," ","="," ","b","2"," ","+"," ","c","3"," ","+"," ","1","\n","v","a","r"," ","o","t","h","e","r"," ","="," ","p","r","i","c","e"," ","-"," ","t","a","x",";","\n"," "," ","v","a","r"," ","t","o","t","a","l"," ","="," ","p","r","i","c","e"," ","+"," ","t","a","x",";","\t">>]

RulesCorpus == {FileRng, FileComplex, FileNames, FileDup}

\* a name with Test in upper case
FileUpperTest ==
    [name |-> <<"T","e","s","t",".","j","s">>,
     path |-> <<"T","e","s","t",".","j","s">>,
     content |-> <<"x">>]

\* a name with SPEC in upper case
FileUpperSpec ==
    [name |-> <<"S","P","E","C",".","t","s">>,
     path |-> <<"S","P","E","C",".","t","s">>,
     content |-> <<"x">>]

\* a name with both test and spec
FileTestSpec ==
    [name |-> <<"a",".","t","e","s","t",".","s","p","e","c",".","t","s">>,
     path |-> <<"a",".","t","e","s","t",".","s","p","e","c",".","t","s">>,
     content |-> <<"x">>]

\* a name with test inside a word
FileLatest ==
    [name |-> <<"l","a","t","e","s","t",".","j","s">>,
     path |-> <<"l","a","t","e","s","t",".","j","s">>,
     content |-> <<"x">>]

\* a name with neither
FileIndex ==
    [name |-> <<"i","n","d","e","x",".","j","s">>,
     path |-> <<"i","n","d","e","x",".","j","s">>,
     content |-> <<"x">>]

NamesCorpus == {FileUpperTest, FileUpperSpec, FileTestSpec, FileLatest, FileIndex}

\* a short file with a security and a naming finding
FileEvalQ ==
    [name |-> <<"p",".","j","s">>,
     path |-> <<"p",".","j","s">>,
     content |-> <<"e","v","a","l","(","q",")","\n","l","e","t"," ","q">>]

\* a short test file with a quality finding and a complexity keyword
FileDebugIf ==
    [name |-> <<"q",".","t","e","s","t",".","t","s">>,
     path |-> <<"q",".","t","e","s","t",".","t","s">>,
     content |-> <<"d","e","b","u","g","g","e","r",";","i","f","(","x",")">>]

PairCorpus == {FileEvalQ, FileDebugIf}

\* paths of which one is the other followed by "_1": the text an id puts
\* between the path and the rule
IdPaths == {<<"p">>, <<"p","_","1">>, <<"p","_","1","_","1">>}

\* contents with one rule on two lines, two rules on one line, and the
\* same rule on the same line as in the other content
IdContents ==
    {<<"l","e","t"," ","q"," ","="," ","e","v","a","l","(","q",")","\n",
       "e","v","a","l","(","w",")">>,
     <<"e","v","a","l","(","q",")","\n","l","e","t"," ","q">>}

IdCorpus == {[name |-> p, path |-> p, content |-> c] : p \in IdPaths, c \in IdContents}

\* the number of lines of the files that show a snippet's both ends
SnippetFileLines == 7

\* a file of SnippetFileLines lines: line k declares q and calls eval, every
\* other line holds its own number
SnippetFile(k) ==
    [name |-> <<"s">> \o NumberToString(k) \o <<".","j","s">>,
     path |-> <<"s">> \o NumberToString(k) \o <<".","j","s">>,
     content |->
       join([j \in 1..SnippetFileLines |->
               IF j = k
               THEN <<"l","e","t"," ","q"," ","="," ","e","v","a","l","(","1",")">>
               ELSE NumberToString(j)],
            <<"\n">>)]

SnippetCorpus == {SnippetFile(k) : k \in 1..SnippetFileLines}

\* a file whose extension is the name of a property of Object.prototype
FileConstructor ==
    [name |-> <<"x",".","c","o","n","s","t","r","u","c","t","o","r">>,
     path |-> <<"x",".","c","o","n","s","t","r","u","c","t","o","r">>,
     content |-> <<"i","f">>]

FileProto ==
    [name |-> <<"x",".","_","_","p","r","o","t","o","_","_">>,
     path |-> <<"x",".","_","_","p","r","o","t","o","_","_">>,
     content |-> <<"F","o","r","\n">>]

\* a file whose content holds keywords next to and inside one another
FileKeywords ==
    [name |-> <<"k",".","T","S">>,
     path |-> <<"k",".","T","S">>,
     content |-> <<"i","f","o","r","\n","W","h","i","l","e","i","f","\n",
                   "c","a","t","c","h","s","w","i","t","c","h">>]

MetricsCorpus ==
    {FileKeywords, FileDebugIf, FileReadme, FileConstructor, FileProto}

Corpus == {FileA, FileDb, FileReadme, FileUtil, FileLogin}

\* all sequences over S of length at most n
SeqsUpTo(S, n) == UNION {[1..k -> S] : k \in 0..n}

\* the fragments generated file contents are composed of
Fragments ==
    { <<"e","v","a","l">>, <<"(">>, <<"\n">>,
      <<"c","o","n","s","o","l","e",".","l","o","g","(">>,
      <<"l","e","t"," ","q">>,
      <<"M","a","t","h",".","r","a","n","d","o","m">> }

GeneratedFiles ==
    { [name |-> <<"g",".","j","s">>, path |-> <<"g",".","j","s">>,
       content |-> Flatten(fr)] : fr \in SeqsUpTo(Fragments, MaxFrags) }

NoResult == <<>>

---------------------------------------------------------------------------
(* The state machine: calls of analyzeFiles on one CodeAnalyzer instance,  *)
(* each resumed once per awaited analyzeFile.  Every call of a behaviour   *)
(* receives the same input list.                                           *)

\* ids of projects and runs: "proj_1" is <<"proj", 1>>; a generated id
\* `run_${Date.now()}_${random}` is <<"run", n>> for a number n no id had
ProjectId(n) == <<"proj", n>>
RunId(n) == <<"run", n>>

\* the objects of the module-level stores as the module is loaded (lines
\* 36-78); an optional property that is not set is no field of the record
InitialObjects ==
    (ProjectId(1) :> [id |-> ProjectId(1), source |-> "git",
                      lastRunStatus |-> "succeeded", lastRunId |-> RunId(1)])
    @@ (ProjectId(2) :> [id |-> ProjectId(2), source |-> "upload",
                         lastRunStatus |-> "running", lastRunId |-> RunId(2)])
    @@ (RunId(1) :> [id |-> RunId(1), projectId |-> ProjectId(1),
                     status |-> "succeeded", duration |-> 45, findingsCount |-> 12])
    @@ (RunId(2) :> [id |-> RunId(2), projectId |-> ProjectId(2),
                     status |-> "running", progress |-> 75,
                     currentPhase |-> "Security Analysis",
                     filesProcessed |-> 15, totalFiles |-> 20])

InitialProjects == <<ProjectId(1), ProjectId(2)>>

InitialRuns == <<RunId(1), RunId(2)>>

\* the first number a generated id gets
FirstFreshId == 3

\* no method of ApiService is being called
NoCalls == [startAnalysis |-> 0, deleteProject |-> 0, uploadFiles |-> 0,
            cloneRepository |-> 0]

\* the stores as the module is loaded, with no timer pending
StoresLoaded ==
    /\ objects = InitialObjects
    /\ mockProjects = InitialProjects
    /\ mockRuns = InitialRuns
    /\ tasks = {}
    /\ nextId = FirstFreshId

\* api.ts is loaded and no call of ApiService is made
ApiLoaded ==
    /\ StoresLoaded
    /\ randoms = {0}
    /\ budget = NoCalls

\* no helper is being applied on its own
NoProbe == [fn |-> "none"]

\* no call has been made on the freshly constructed analyzer
InitCall ==
    /\ pc = "idle"
    /\ idx = 0
    /\ findings = <<>>
    /\ metrics = InitialMetrics(<<>>)
    /\ security = NoResult
    /\ coverage = NoResult
    /\ lastIndex = [t \in CatalogTitles |-> 0]
    /\ callNo = 0
    /\ firstResult = NoResult

\* a concurrent call that is to receive the input list fs
PeerFor(fs) ==
    [pc |-> "idle", files |-> fs, idx |-> 0, findings |-> <<>>,
     metrics |-> InitialMetrics(<<>>), security |-> NoResult,
     coverage |-> NoResult]

\* no concurrent call
InitCommon ==
    /\ InitCall
    /\ peer = PeerFor(<<>>)
    /\ ApiLoaded
    /\ probe = NoProbe

\* an analyzer on which no call is ever made
AnalyzerIdle ==
    /\ files = <<>>
    /\ InitCall
    /\ peer = PeerFor(<<>>)

Init ==
    /\ files \in SeqsUpTo(Corpus, MaxFiles)
    /\ InitCommon

\* analyzeFiles is called (lines 203-212)
Call ==
    /\ pc \in {"idle", "returned", "rejected"}
    /\ callNo < MaxCalls
    /\ callNo' = callNo + 1
    /\ findings' = <<>>
    /\ metrics' = InitialMetrics(files)
    /\ idx' = 0
    /\ pc' = "loop"
    /\ security' = NoResult
    /\ coverage' = NoResult
    /\ UNCHANGED <<files, lastIndex, firstResult, peer>>
    /\ UNCHANGED <<apiVars, probe>>

\* findings.push(...fileFindings) (line 216)
PushFindings(fnd, fileFindings) == fnd \o fileFindings

\* the catalog regexes' lastIndex values after analyzeFile(file) when every
\* scan leaves the end of its first match behind
CatalogLastIndexAfterFirstMatch(file, li) ==
    [t \in CatalogTitles |->
       LET re == IF \E k \in 1..Len(securityPatterns) :
                       securityPatterns[k].title = t
                 THEN securityPatterns[CHOOSE k \in 1..Len(securityPatterns) :
                        securityPatterns[k].title = t].pattern
                 ELSE qualityPatterns[CHOOSE k \in 1..Len(qualityPatterns) :
                        qualityPatterns[k].title = t].pattern
       IN LastIndexAfterTest(file.content, re, li[t])]

\* the catalog regexes' lastIndex values after analyzeFile(file) has run
\* its matchAll scans (lines 255 and 278) from the values li
CatalogLastIndexAfter(file, li) ==
    [t \in CatalogTitles |->
       LET re == IF \E k \in 1..Len(securityPatterns) :
                       securityPatterns[k].title = t
                 THEN securityPatterns[CHOOSE k \in 1..Len(securityPatterns) :
                        securityPatterns[k].title = t].pattern
                 ELSE qualityPatterns[CHOOSE k \in 1..Len(qualityPatterns) :
                        qualityPatterns[k].title = t].pattern
       IN LastIndexAfterMatchAll(file.content, re, li[t])]

\* one iteration of the for-loop (lines 214-236); an exception raised by
\* analyzeFile is not caught and rejects the promise of analyzeFiles
ScanFile ==
    /\ pc = "loop"
    /\ idx < Len(files)
    /\ LET file == files[idx + 1] IN
       IF analyzeFileThrows(file)
       THEN /\ pc' = "rejected"
            /\ UNCHANGED <<idx, findings, metrics, lastIndex>>
       ELSE /\ findings' = PushFindings(findings, analyzeFile(file, lastIndex))
            /\ metrics' = UpdateMetrics(metrics, file)
            /\ idx' = idx + 1
            /\ lastIndex' = CatalogLastIndexAfter(file, lastIndex)
            /\ pc' = pc
    /\ UNCHANGED <<files, security, coverage, callNo, firstResult, peer>>
    /\ UNCHANGED <<apiVars, probe>>

\* the loop is over: the summaries are derived and the result is returned
\* (lines 238-246); the state s of the Math.random() generator at that
\* moment is arbitrary
Finish ==
    /\ pc = "loop"
    /\ idx = Len(files)
    /\ security' = analyzeSecurityFindings(findings)
    /\ \E s \in 0..(RandDen - 1) : coverage' = analyzeCoverage(files, metrics, s)
    /\ pc' = "returned"
    /\ firstResult' = IF callNo = 1
                      THEN [findings |-> findings, metrics |-> metrics]
                      ELSE firstResult
    /\ UNCHANGED <<files, idx, findings, metrics, lastIndex, callNo, peer>>
    /\ UNCHANGED <<apiVars, probe>>

Next == Call \/ ScanFile \/ Finish

\* the concurrent call is made (lines 203-212)
PeerCall ==
    /\ peer.pc = "idle"
    /\ peer' = [peer EXCEPT !.pc = "loop", !.idx = 0, !.findings = <<>>,
                            !.metrics = InitialMetrics(peer.files)]
    /\ UNCHANGED <<files, pc, idx, findings, metrics, security, coverage,
                   lastIndex, callNo, firstResult>>
    /\ UNCHANGED <<apiVars, probe>>

\* the two activations of analyzeFiles that run on the instance
Activations == {"main", "peer"}

\* the local state of an activation: the call of `files` or the concurrent one
Activation(who) ==
    IF who = "main"
    THEN [pc |-> pc, files |-> files, idx |-> idx, findings |-> findings,
          metrics |-> metrics, security |-> security, coverage |-> coverage]
    ELSE peer

\* the local state of an activation after one iteration of its for-loop
\* (lines 214-236) that finds the catalog's lastIndex values li
ScannedActivation(act, li) ==
    LET file == act.files[act.idx + 1] IN
    IF analyzeFileThrows(file)
    THEN [act EXCEPT !.pc = "rejected"]
    ELSE [act EXCEPT !.findings = PushFindings(@, analyzeFile(file, li)),
                     !.metrics = UpdateMetrics(@, file),
                     !.idx = @ + 1]

\* one iteration of the for-loop (lines 214-236) of either activation; both
\* read and advance the lastIndex of the one catalog
ScanFileOfEither ==
    \E who \in Activations :
      /\ Activation(who).pc = "loop"
      /\ Activation(who).idx < Len(Activation(who).files)
      /\ lastIndex' =
           IF analyzeFileThrows(Activation(who).files[Activation(who).idx + 1])
           THEN lastIndex
           ELSE CatalogLastIndexAfter(
                  Activation(who).files[Activation(who).idx + 1], lastIndex)
      /\ \E after \in {ScannedActivation(Activation(who), lastIndex)} :
           IF who = "main"
           THEN /\ findings' = after.findings
                /\ metrics' = after.metrics
                /\ idx' = after.idx
                /\ pc' = after.pc
                /\ UNCHANGED peer
           ELSE /\ peer' = after
                /\ UNCHANGED <<findings, metrics, idx, pc>>
      /\ UNCHANGED <<files, security, coverage, callNo, firstResult>>
      /\ UNCHANGED <<apiVars, probe>>

\* the concurrent call derives its summaries and returns (lines 238-246)
PeerFinish ==
    /\ peer.pc = "loop"
    /\ peer.idx = Len(peer.files)
    /\ \E s \in 0..(RandDen - 1) :
         peer' = [peer EXCEPT
                    !.security = analyzeSecurityFindings(peer.findings),
                    !.coverage = analyzeCoverage(peer.files, peer.metrics, s),
                    !.pc = "returned"]
    /\ UNCHANGED <<files, pc, idx, findings, metrics, security, coverage,
                   lastIndex, callNo, firstResult>>
    /\ UNCHANGED <<apiVars, probe>>

\* the one call of `files` that runs beside the concurrent call
CallOnce == callNo = 0 /\ Call

\* two calls on the same instance, interleaved at their await points
NextPair ==
    CallOnce \/ PeerCall \/ ScanFileOfEither \/ Finish \/ PeerFinish

Spec == Init /\ [][Next]_vars

\* single generated files, for the properties of analyzeFile over all contents
InitScan ==
    /\ files \in {<<f>> : f \in GeneratedFiles}
    /\ InitCommon

SpecScan == InitScan /\ [][Next]_vars

\* input lists that may hold a record without content
InitErr ==
    /\ files \in SeqsUpTo({FileA, FileLogin, FileReadme, FileMalformed}, MaxFiles)
    /\ InitCommon

SpecErr == InitErr /\ [][Next]_vars

\* input lists for the structural heuristics and the weak-RNG rule
InitRules ==
    /\ files \in SeqsUpTo(RulesCorpus, MaxFiles)
    /\ InitCommon

SpecRules == InitRules /\ [][Next]_vars

\* input lists of files that differ in their names
InitNames ==
    /\ files \in SeqsUpTo(NamesCorpus, MaxFiles)
    /\ InitCommon

SpecNames == InitNames /\ [][Next]_vars

\* two concurrent calls, each with its own input list
InitPair ==
    /\ files \in SeqsUpTo(PairCorpus, MaxFiles)
    /\ InitCall
    /\ peer \in {PeerFor(fs) : fs \in SeqsUpTo(PairCorpus, MaxFiles)}
    /\ ApiLoaded
    /\ probe = NoProbe

SpecPair == InitPair /\ [][NextPair]_vars

\* an input list of n files of which the first t are test files
TestsThenOthers(t, n) ==
    [k \in 1..n |-> IF k <= t THEN FileTestSpec ELSE FileIndex]

\* small projects and one large project, with every number of test files
InitProjects ==
    /\ files \in {TestsThenOthers(t, n) :
                    t \in 0..LargeProject, n \in (1..MaxFiles) \cup {LargeProject}}
    /\ InitCommon

SpecProjects == InitProjects /\ [][Next]_vars

\* input lists of files whose paths and findings make ids that are close
InitIds ==
    /\ files \in SeqsUpTo(IdCorpus, MaxFiles)
    /\ InitCommon

SpecIds == InitIds /\ [][Next]_vars

\* input lists of files with a finding on each line, first to last
InitSnippets ==
    /\ files \in SeqsUpTo(SnippetCorpus, MaxFiles)
    /\ InitCommon

SpecSnippets == InitSnippets /\ [][Next]_vars

\* input lists for the metrics counters
InitMetrics ==
    /\ files \in SeqsUpTo(MetricsCorpus, MaxFiles)
    /\ InitCommon

SpecMetrics == InitMetrics /\ [][Next]_vars

\* the characters of the contents findFunctionEnd is applied to
BraceAlphabet == {"{", "}", "a"}

\* the largest length of such a content
MaxContent == 4

\* findFunctionEnd is about to be applied to a content from an index
InitFunctionEnd ==
    /\ AnalyzerIdle
    /\ ApiLoaded
    /\ probe \in {[fn |-> "findFunctionEnd", content |-> c, startIndex |-> i,
                   done |-> FALSE, result |-> 0] :
                    c \in SeqsUpTo(BraceAlphabet, MaxContent), i \in 0..MaxContent}
    /\ probe.startIndex <= Len(probe.content)

\* this.findFunctionEnd(content, startIndex) returns (lines 479-497)
ApplyFunctionEnd ==
    /\ probe.fn = "findFunctionEnd"
    /\ ~probe.done
    /\ probe' = [probe EXCEPT !.done = TRUE,
                              !.result = findFunctionEnd(probe.content, probe.startIndex)]
    /\ UNCHANGED <<analyzerVars, apiVars>>

SpecFunctionEnd == InitFunctionEnd /\ [][ApplyFunctionEnd]_vars

---------------------------------------------------------------------------
(* The mock service of api.ts: calls of ApiService, each resumed by the    *)
(* timer of its delay, and the timer callbacks the calls leave behind.     *)
(* Callbacks run to completion one at a time, the timer that is due first  *)
(* before the others; every pending timer carries the milliseconds it has  *)
(* left (wait). Calls are made at any time between two callbacks.          *)

\* the elements of an array
Range(seq) == {seq[k] : k \in 1..Len(seq)}

\* an object with one property assigned
SetField(obj, name, value) ==
    [f \in (DOMAIN obj) \cup {name} |-> IF f = name THEN value ELSE obj[f]]

\* Math.floor(Math.random() * n) when Math.random() returns q / 2^RandBits
RandomBelow(q, n) == (q * n) \div (2 ^ RandBits)

\* the heap after `project.lastRunStatus = status` for the captured project
\* reference, <<>> when find returned undefined (lines 205-209, 221-224,
\* 245-250); the object is written whether or not a store still holds it
WithProjectStatus(heap, project, status) ==
    IF project = <<>> THEN heap
    ELSE [heap EXCEPT ![project[1]] = SetField(@, "lastRunStatus", status)]

\* the step of the times at which calls are made: the shortest delay
TimeStep == 500

\* the timers after d milliseconds
Elapsed(timers, d) == {[t EXCEPT !.wait = @ - d] : t \in timers}

\* the times a call can be made at, counted from the last callback: no
\* later than the next timer is due
CallTimes(timers) ==
    {d \in 0..(IF timers = {} THEN 0 ELSE SetMin({t.wait : t \in timers})) :
        d % TimeStep = 0}

\* timer t is the next to fire, or one of the next
Due(t) == \A u \in tasks : t.wait <= u.wait

\* the timers once the callback of t has run and set the timers in set
Fired(t, set) == Elapsed(tasks \ {t}, t.wait) \cup set

\* startAnalysis(projectId) is called for a project of the store
StartAnalysisCalled ==
    /\ budget.startAnalysis > 0
    /\ \E p \in Range(mockProjects) :
         \E d \in CallTimes(tasks) :
           tasks' = Elapsed(tasks, d) \cup
                      {[kind |-> "startAnalysis", tid |-> nextId, wait |-> 500,
                               projectId |-> p]}
    /\ nextId' = nextId + 1
    /\ budget' = [budget EXCEPT !.startAnalysis = @ - 1]
    /\ UNCHANGED <<objects, mockProjects, mockRuns, randoms>>
    /\ UNCHANGED <<analyzerVars, probe>>

\* delay(500) is over: the run is created and stored, the project is
\* updated and the first timer is set (lines 192-259)
StartAnalysisResumed ==
    \E t \in tasks :
      /\ t.kind = "startAnalysis"
      /\ Due(t)
      /\ LET runId   == RunId(nextId)
             newRun  == [id |-> runId, projectId |-> t.projectId,
                         status |-> "queued"]
             project == IF t.projectId \in Range(mockProjects)
                        THEN <<t.projectId>> ELSE <<>>
             stored  == (runId :> newRun) @@ objects
         IN /\ objects' =
                 IF project = <<>> THEN stored
                 ELSE [stored EXCEPT ![t.projectId] =
                         SetField(SetField(@, "lastRunStatus", "queued"),
                                  "lastRunId", runId)]
            /\ mockRuns' = Append(mockRuns, runId)
            /\ tasks' = Fired(t,
                          {[kind |-> "begin", tid |-> t.tid, wait |-> 1000, runId |-> runId,
                            project |-> project]})
      /\ nextId' = nextId + 1
      /\ UNCHANGED <<mockProjects, randoms, budget>>
      /\ UNCHANGED <<analyzerVars, probe>>

\* the callback of setTimeout(..., 1000) (lines 211-257)
RunBegins ==
    \E t \in tasks :
      /\ t.kind = "begin"
      /\ Due(t)
      /\ IF t.runId \in Range(mockRuns)
         THEN \E q \in randoms :
                /\ objects' =
                     WithProjectStatus(
                       [objects EXCEPT ![t.runId] =
                          [id |-> @.id, projectId |-> @.projectId,
                           status |-> "running", progress |-> 0,
                           currentPhase |-> "Static Analysis",
                           filesProcessed |-> 0,
                           totalFiles |-> RandomBelow(q, 20) + 10]],
                       t.project, "running")
                /\ tasks' = Fired(t,
                              {[kind |-> "tick", tid |-> t.tid, wait |-> 2000, runId |-> t.runId,
                                project |-> t.project]})
         ELSE /\ tasks' = Fired(t, {})
              /\ UNCHANGED objects
      /\ UNCHANGED <<mockProjects, mockRuns, nextId, randoms, budget>>
      /\ UNCHANGED <<analyzerVars, probe>>

\* run.currentPhase after the progress has grown to p (lines 231-237)
PhaseAt(p, phase) ==
    IF p > 25 /\ p < 50 THEN "Security Analysis"
    ELSE IF p > 50 /\ p < 75 THEN "API Schema Validation"
    ELSE IF p > 75 THEN "Coverage Analysis"
    ELSE phase

\* the run object after the increments of one callback of the progress
\* interval that finds progress < 100 (lines 228-238); q holds the values
\* of Math.random()
MovedRun(run, q) ==
    LET p == run.progress + RandomBelow(q[1], 15) + 5
    IN [run EXCEPT !.progress = p,
                   !.filesProcessed = @ + RandomBelow(q[2], 3) + 1,
                   !.currentPhase = PhaseAt(p, @)]

\* the run object once its progress has reached 100 (lines 242-245)
SucceededRun(run, q) ==
    SetField(SetField([run EXCEPT !.status = "succeeded", !.progress = 100],
                      "duration", RandomBelow(q[1], 60) + 30),
             "findingsCount", RandomBelow(q[2], 20) + 5)

\* one callback of setInterval(..., 2000) (lines 227-255); clearInterval
\* removes the timer once the run has succeeded
ProgressTick ==
    \E t \in tasks :
      /\ t.kind = "tick"
      /\ Due(t)
      /\ IF objects[t.runId].progress < 100
         THEN \E q \in [1..2 -> randoms] :
                LET moved == MovedRun(objects[t.runId], q) IN
                IF moved.progress >= 100
                THEN \E r \in [1..2 -> randoms] :
                       /\ objects' =
                            WithProjectStatus(
                              [objects EXCEPT ![t.runId] = SucceededRun(moved, r)],
                              t.project, "succeeded")
                       /\ tasks' = Fired(t, {})
                ELSE /\ objects' = [objects EXCEPT ![t.runId] = moved]
                     /\ tasks' = Fired(t, {[t EXCEPT !.wait = 2000]})
         ELSE /\ UNCHANGED objects
              /\ tasks' = Fired(t, {[t EXCEPT !.wait = 2000]})
      /\ UNCHANGED <<mockProjects, mockRuns, nextId, randoms, budget>>
      /\ UNCHANGED <<analyzerVars, probe>>

NextRuns == StartAnalysisCalled \/ StartAnalysisResumed \/ RunBegins \/ ProgressTick

\* one call of startAnalysis, with every value of Math.random()
InitRun ==
    /\ AnalyzerIdle
    /\ probe = NoProbe
    /\ StoresLoaded
    /\ randoms = 0..(RandDen - 1)
    /\ budget = [NoCalls EXCEPT !.startAnalysis = 1]

SpecRun == InitRun /\ [][NextRuns]_vars

\* the largest number of startAnalysis calls
MaxStarts == 2

\* calls of startAnalysis that overlap, Math.random() returning one value
InitOverlap ==
    /\ AnalyzerIdle
    /\ probe = NoProbe
    /\ StoresLoaded
    /\ randoms \in {{q} : q \in 0..(RandDen - 1)}
    /\ budget = [NoCalls EXCEPT !.startAnalysis = MaxStarts]

SpecOverlap == InitOverlap /\ [][NextRuns]_vars

\* deleteProject(id) is called for a project of the store
DeleteProjectCalled ==
    /\ budget.deleteProject > 0
    /\ \E p \in Range(mockProjects) :
         \E d \in CallTimes(tasks) :
           tasks' = Elapsed(tasks, d) \cup
                      {[kind |-> "deleteProject", tid |-> nextId, wait |-> 1000, id |-> p]}
    /\ nextId' = nextId + 1
    /\ budget' = [budget EXCEPT !.deleteProject = @ - 1]
    /\ UNCHANGED <<objects, mockProjects, mockRuns, randoms>>
    /\ UNCHANGED <<analyzerVars, probe>>

\* delay(1000) is over: both stores are filtered (lines 184-186); the
\* objects themselves stay with whoever still refers to them
DeleteProjectResumed ==
    \E t \in tasks :
      /\ t.kind = "deleteProject"
      /\ Due(t)
      /\ mockProjects' = SelectSeq(mockProjects, LAMBDA p : objects[p].id # t.id)
      /\ mockRuns' = SelectSeq(mockRuns, LAMBDA r : objects[r].projectId # t.id)
      /\ tasks' = Fired(t, {})
      /\ UNCHANGED <<objects, nextId, randoms, budget>>
      /\ UNCHANGED <<analyzerVars, probe>>

\* the largest number of files of one upload
MaxUpload == 2

\* the files of an upload: what the service reads of a File is its size and
\* whether its extension is one of js, ts, py, java (lines 83, 89-93)
UploadKinds == {[code |-> TRUE, size |-> 1000], [code |-> FALSE, size |-> 3000000]}
UploadCorpus == UNION {[1..n -> UploadKinds] : n \in 0..MaxUpload}

\* analysisTime of the module's analyzeFiles (lines 83-84), in whole
\* milliseconds
AnalysisTime(uploaded) ==
    LET sum[k \in 0..Len(uploaded)] ==
          IF k = 0 THEN 0 ELSE sum[k - 1] + uploaded[k].size
        totalSize == sum[Len(uploaded)]
    IN Min(Max(Len(uploaded) * 500 + totalSize \div 1000, 2000), 10000)

\* Math.floor(analysisTime / 1000) (line 99)
AnalysisDuration(uploaded) == AnalysisTime(uploaded) \div 1000

\* the findings count of the module's analyzeFiles (lines 88-98); q holds
\* the value of Math.random() for each file
AnalysisFindings(uploaded, q) ==
    LET found[k \in 0..Len(uploaded)] ==
          IF k = 0 THEN 0
          ELSE LET baseFindings == RandomBelow(q[k], 5) + 1
               IN found[k - 1] + (IF uploaded[k].code
                                  THEN (baseFindings * 3) \div 2
                                  ELSE baseFindings)
    IN Max(found[Len(uploaded)], 1)

\* uploadFiles(files) is called
UploadFilesCalled ==
    /\ budget.uploadFiles > 0
    /\ \E uploaded \in UploadCorpus :
         \E d \in CallTimes(tasks) :
           tasks' = Elapsed(tasks, d) \cup
                      {[kind |-> "uploadFiles", tid |-> nextId, wait |-> 1500,
                               files |-> uploaded]}
    /\ nextId' = nextId + 1
    /\ budget' = [budget EXCEPT !.uploadFiles = @ - 1]
    /\ UNCHANGED <<objects, mockProjects, mockRuns, randoms>>
    /\ UNCHANGED <<analyzerVars, probe>>

\* delay(1500) is over: the project is created and put first in the store,
\* and the analysis timer is set (lines 265-312)
UploadFilesResumed ==
    \E t \in tasks :
      /\ t.kind = "uploadFiles"
      /\ Due(t)
      /\ LET projectId == ProjectId(nextId)
         IN /\ objects' = (projectId :> [id |-> projectId, source |-> "upload",
                                         lastRunStatus |-> "queued"]) @@ objects
            /\ mockProjects' = <<projectId>> \o mockProjects
            /\ tasks' = Fired(t,
                          {[kind |-> "uploadTimer", tid |-> t.tid, wait |-> 2000,
                            files |-> t.files, project |-> projectId]})
      /\ nextId' = nextId + 1
      /\ UNCHANGED <<mockRuns, randoms, budget>>
      /\ UNCHANGED <<analyzerVars, probe>>

\* the callback of setTimeout(..., 2000) starts analyzeFiles, which sets
\* its own timer, and waits for it (lines 281-282, 81-86)
UploadAnalysisStarts ==
    \E t \in tasks :
      /\ t.kind = "uploadTimer"
      /\ Due(t)
      /\ tasks' = Fired(t,
                    {[kind |-> "analyzeFiles", tid |-> t.tid, wait |-> AnalysisTime(t.files), files |-> t.files,
                      project |-> t.project]})
      /\ UNCHANGED <<objects, mockProjects, mockRuns, nextId, randoms, budget>>
      /\ UNCHANGED <<analyzerVars, probe>>

\* the timer of analyzeFiles resolves its promise (lines 86-101) and the
\* callback goes on: the run is created running and stored, the project
\* points to it, and the completion timer is set (lines 283-309)
UploadRunStored ==
    \E t \in tasks :
      /\ t.kind = "analyzeFiles"
      /\ Due(t)
      /\ \E q \in [1..Len(t.files) -> randoms] :
           LET runId == RunId(nextId)
               newRun == [id |-> runId, projectId |-> t.project,
                          status |-> "running", progress |-> 0,
                          currentPhase |-> "Static Analysis",
                          filesProcessed |-> 0, totalFiles |-> Len(t.files)]
           IN /\ objects' =
                   [(runId :> newRun) @@ objects EXCEPT ![t.project] =
                      SetField(SetField(@, "lastRunId", runId),
                               "lastRunStatus", "running")]
              /\ mockRuns' = Append(mockRuns, runId)
              /\ tasks' = Fired(t,
                            {[kind |-> "uploadDone", tid |-> t.tid, wait |-> AnalysisDuration(t.files) * 1000, runId |-> runId,
                              project |-> t.project,
                              duration |-> AnalysisDuration(t.files),
                              findings |-> AnalysisFindings(t.files, q)]})
      /\ nextId' = nextId + 1
      /\ UNCHANGED <<mockProjects, randoms, budget>>
      /\ UNCHANGED <<analyzerVars, probe>>

\* the callback of setTimeout(..., analysisResult.duration * 1000)
\* (lines 301-309)
UploadRunSucceeds ==
    \E t \in tasks :
      /\ t.kind = "uploadDone"
      /\ Due(t)
      /\ objects' =
           [objects EXCEPT
              ![t.runId] = SetField(SetField([@ EXCEPT !.status = "succeeded",
                                                       !.progress = 100],
                                             "duration", t.duration),
                                    "findingsCount", t.findings),
              ![t.project] = SetField(@, "lastRunStatus", "succeeded")]
      /\ tasks' = Fired(t, {})
      /\ UNCHANGED <<mockProjects, mockRuns, nextId, randoms, budget>>
      /\ UNCHANGED <<analyzerVars, probe>>

\* cloneRepository(repoUrl, branch) is called
CloneRepositoryCalled ==
    /\ budget.cloneRepository > 0
    /\ \E d \in CallTimes(tasks) :
           tasks' = Elapsed(tasks, d) \cup
                      {[kind |-> "cloneRepository", tid |-> nextId, wait |-> 2500]}
    /\ nextId' = nextId + 1
    /\ budget' = [budget EXCEPT !.cloneRepository = @ - 1]
    /\ UNCHANGED <<objects, mockProjects, mockRuns, randoms>>
    /\ UNCHANGED <<analyzerVars, probe>>

\* delay(2500) is over: the project is created and put first in the store,
\* and the clone timer is set (lines 322-386)
CloneRepositoryResumed ==
    \E t \in tasks :
      /\ t.kind = "cloneRepository"
      /\ Due(t)
      /\ LET projectId == ProjectId(nextId)
         IN /\ objects' = (projectId :> [id |-> projectId, source |-> "git",
                                         lastRunStatus |-> "queued"]) @@ objects
            /\ mockProjects' = <<projectId>> \o mockProjects
            /\ tasks' = Fired(t,
                          {[kind |-> "cloneTimer", tid |-> t.tid, wait |-> 3000,
                            project |-> projectId]})
      /\ nextId' = nextId + 1
      /\ UNCHANGED <<mockRuns, randoms, budget>>
      /\ UNCHANGED <<analyzerVars, probe>>

\* the callback of setTimeout(..., 3000): the run is created running and
\* stored, the project points to it, the progress interval is set
\* (lines 338-361)
CloneRunStored ==
    \E t \in tasks :
      /\ t.kind = "cloneTimer"
      /\ Due(t)
      /\ \E q \in randoms :
           LET runId == RunId(nextId)
               newRun == [id |-> runId, projectId |-> t.project,
                          status |-> "running", progress |-> 0,
                          currentPhase |-> "Repository Clone",
                          filesProcessed |-> 0,
                          totalFiles |-> RandomBelow(q, 50) + 20]
           IN /\ objects' =
                   [(runId :> newRun) @@ objects EXCEPT ![t.project] =
                      SetField(SetField(@, "lastRunId", runId),
                               "lastRunStatus", "running")]
              /\ mockRuns' = Append(mockRuns, runId)
              /\ tasks' = Fired(t,
                            {[kind |-> "cloneTick", tid |-> t.tid, wait |-> 3000, runId |-> runId,
                              project |-> t.project, currentPhaseIndex |-> 0]})
      /\ nextId' = nextId + 1
      /\ UNCHANGED <<mockProjects, randoms, budget>>
      /\ UNCHANGED <<analyzerVars, probe>>

\* the phases of a cloned repository's run (line 358)
phases == <<"Repository Clone", "Static Analysis", "Security Analysis",
            "Coverage Analysis">>

\* currentPhaseIndex after the progress has grown to p (lines 366-370);
\* p / 25 > index + 1 in whole numbers
PhaseIndexAt(p, index) ==
    IF p > 25 * (index + 1) /\ index < Len(phases) - 1 THEN index + 1 ELSE index

\* one callback of setInterval(..., 3000) (lines 361-383)
CloneTick ==
    \E t \in tasks :
      /\ t.kind = "cloneTick"
      /\ Due(t)
      /\ IF objects[t.runId].progress < 100
         THEN \E q \in [1..2 -> randoms] :
                LET p     == objects[t.runId].progress + RandomBelow(q[1], 10) + 5
                    index == PhaseIndexAt(p, t.currentPhaseIndex)
                    moved == [objects[t.runId] EXCEPT
                                !.progress = p,
                                !.filesProcessed = @ + RandomBelow(q[2], 3) + 1,
                                !.currentPhase =
                                    IF index = t.currentPhaseIndex THEN @
                                    ELSE phases[index + 1]]
                IN IF p >= 100
                   THEN \E r \in [1..2 -> randoms] :
                          /\ objects' =
                               [objects EXCEPT
                                  ![t.runId] =
                                     SetField(SetField(
                                         [moved EXCEPT !.status = "succeeded",
                                                       !.progress = 100],
                                         "duration", RandomBelow(r[1], 120) + 60),
                                       "findingsCount", RandomBelow(r[2], 30) + 10),
                                  ![t.project] =
                                     SetField(@, "lastRunStatus", "succeeded")]
                          /\ tasks' = Fired(t, {})
                   ELSE /\ objects' = [objects EXCEPT ![t.runId] = moved]
                        /\ tasks' = Fired(t,
                                      {[t EXCEPT !.currentPhaseIndex = index, !.wait = 3000]})
         ELSE /\ UNCHANGED objects
              /\ tasks' = Fired(t, {[t EXCEPT !.wait = 3000]})
      /\ UNCHANGED <<mockProjects, mockRuns, nextId, randoms, budget>>
      /\ UNCHANGED <<analyzerVars, probe>>

NextApi ==
    \/ StartAnalysisCalled \/ StartAnalysisResumed \/ RunBegins \/ ProgressTick
    \/ DeleteProjectCalled \/ DeleteProjectResumed
    \/ UploadFilesCalled \/ UploadFilesResumed \/ UploadAnalysisStarts
    \/ UploadRunStored \/ UploadRunSucceeds
    \/ CloneRepositoryCalled \/ CloneRepositoryResumed \/ CloneRunStored
    \/ CloneTick

\* one call of each kind of one session, at most one deleteProject among
\* them, Math.random() returning one value
InitDelete ==
    /\ AnalyzerIdle
    /\ probe = NoProbe
    /\ StoresLoaded
    /\ randoms \in {{q} : q \in 0..(RandDen - 1)}
    /\ budget \in {b \in [DOMAIN NoCalls -> 0..1] :
                     /\ b.deleteProject = 1
                     /\ b.startAnalysis + b.uploadFiles + b.cloneRepository = 1}

SpecDelete == InitDelete /\ [][NextApi]_vars

---------------------------------------------------------------------------
(* Properties. *)

CatalogPatterns == securityPatterns \o qualityPatterns

\* the number of newline characters of content before index
NewlinesBefore(content, index) ==
    Cardinality({j \in 1..index : content[j] = "\n"})

\* the index at which line L (1-based) of the split content starts
RECURSIVE LineStart(_, _)
LineStart(lines, L) ==
    IF L <= 1 THEN 0 ELSE LineStart(lines, L - 1) + Len(lines[L - 1]) + 1

\* the findings of the call so far that carry a given title, in order
FindingsTitled(t) == SelectSeq(findings, LAMBDA f : f.title = t)

\* C1: every finding emitted for a match of a security or quality rule has
\* line = 1 + the number of newlines before the match's start offset, which
\* is the 1-based index, in content.split("\n"), of the line that holds the
\* match's first character.  Findings are emitted by ScanFile only, so the
\* property is stated on the states of the file loop.
C1_LineOfMatch ==
    pc = "loop" =>
    \A p \in 1..Len(CatalogPatterns) :
      LET pat  == CatalogPatterns[p]
          got  == FindingsTitled(pat.title)
          ms   == [k \in 1..idx |-> matchAll(files[k].content, pat.pattern, 0)]
          want == Flatten([k \in 1..idx |->
                     [j \in 1..Len(ms[k]) |->
                        1 + NewlinesBefore(files[k].content, ms[k][j].index)]])
      IN /\ Len(got) = Len(want)
         /\ \A j \in 1..Len(got) : got[j].line = want[j]
         /\ \A k \in 1..idx : \A j \in 1..Len(ms[k]) :
              LET lines == split(files[k].content, "\n")
                  L     == 1 + NewlinesBefore(files[k].content, ms[k][j].index)
              IN /\ L <= Len(lines)
                 /\ LineStart(lines, L) <= ms[k][j].index
                 /\ ms[k][j].index < LineStart(lines, L) + Len(lines[L])

\* a rule matched on the third line of a file
C1_Witness ==
    /\ pc = "loop"
    /\ idx = Len(files)
    /\ \E k \in 1..Len(findings) :
         /\ findings[k].category \in {"security", "quality"}
         /\ findings[k].line = 3

\* the number of findings of the call with a category and a severity
CountFindings(category, severity) ==
    Cardinality({k \in 1..Len(findings) :
                   /\ findings[k].category = category
                   /\ findings[k].severity = severity})

\* C2: in a returned result each of security.critical/high/medium/low is
\* the number of findings of category security with that severity; findings
\* of other categories are not counted.
C2_SeverityCounts ==
    pc = "returned" =>
      /\ security.critical = CountFindings("security", "critical")
      /\ security.high     = CountFindings("security", "high")
      /\ security.medium   = CountFindings("security", "medium")
      /\ security.low      = CountFindings("security", "low")

\* a result with security findings of two severities and a quality finding
\* that shares its severity with one of them
C2_Witness ==
    /\ pc = "returned"
    /\ security.critical >= 1
    /\ security.medium >= 1
    /\ CountFindings("quality", "medium") >= 1

\* C3: a second analyzeFiles call on the same instance with the same input
\* returns the findings, totalLines, languages, testFiles and complexity of
\* the first call.
C3_Idempotent ==
    (pc = "returned" /\ callNo >= 2) =>
      /\ findings = firstResult.findings
      /\ metrics.totalLines = firstResult.metrics.totalLines
      /\ metrics.languages = firstResult.metrics.languages
      /\ metrics.testFiles = firstResult.metrics.testFiles
      /\ metrics.complexity = firstResult.metrics.complexity

\* a second call has returned findings of catalog rules
C3_Witness ==
    /\ pc = "returned"
    /\ callNo = 2
    /\ \E k \in 1..Len(findings) : findings[k].category = "security"
    /\ \E k \in 1..Len(findings) : findings[k].category = "quality"

\* C4: an error raised by analyzeFile for one file does not abort the run:
\* the call is never rejected, it goes on with the remaining files.
C4_FileErrorIsolated ==
    pc # "rejected"

\* C5: analyzeFiles([]) returns normally, with totalFiles = 0,
\* totalLines = 0, no finding, no vulnerability and all four security
\* counts 0.
C5_EmptyInput ==
    files = <<>> =>
      /\ pc # "rejected"
      /\ pc = "loop" => ENABLED Finish
      /\ pc = "returned" =>
           /\ metrics.totalFiles = 0
           /\ metrics.totalLines = 0
           /\ findings = <<>>
           /\ security.vulnerabilities = <<>>
           /\ security.critical = 0
           /\ security.high = 0
           /\ security.medium = 0
           /\ security.low = 0

\* a call with the empty list has returned
C5_Witness ==
    /\ files = <<>>
    /\ pc = "returned"

\* C6: with zero files the division testFiles / totalFiles is guarded: the
\* coverage figures are numbers, never NaN, and the per-file list is empty.
C6_CoverageGuarded ==
    (pc = "returned" /\ files = <<>>) =>
      /\ coverage.overall.kind = "fin"
      /\ coverage.lines.kind = "fin"
      /\ coverage.functions.kind = "fin"
      /\ coverage.branches.kind = "fin"
      /\ coverage.files = <<>>

\* the place of a finding's rule in the emission order of analyzeFile
RuleRank(f) ==
    IF f.category = "security"
    THEN CHOOSE k \in 1..Len(SecurityTitles) : SecurityTitles[k] = f.title
    ELSE IF f.category = "quality"
    THEN Len(SecurityTitles)
         + (CHOOSE k \in 1..Len(QualityTitles) : QualityTitles[k] = f.title)
    ELSE Len(SecurityTitles) + Len(QualityTitles)
         + (CASE f.title = "High Cyclomatic Complexity" -> 1
              [] f.title = "Poor Variable Naming" -> 2
              [] f.title = "Code Duplication" -> 3)

\* rules in emission order, and the findings of one rule by increasing line
InRuleOrder(fs) ==
    \A a, b \in 1..Len(fs) :
      a < b => \/ RuleRank(fs[a]) < RuleRank(fs[b])
               \/ /\ RuleRank(fs[a]) = RuleRank(fs[b])
                  /\ fs[a].line <= fs[b].line

\* C7: the findings are the per-file results concatenated in input order;
\* within a file security rules come first in catalog order, then quality
\* rules in catalog order, then complexity, naming and duplication, and the
\* matches of one rule come by increasing source offset.
C7_EmissionOrder ==
    pc \in {"loop", "returned"} =>
      LET perFile == [k \in 1..idx |-> analyzeFile(files[k], lastIndex)] IN
      /\ findings = Flatten(perFile)
      /\ \A k \in 1..idx :
           /\ InRuleOrder(perFile[k])
           /\ \A p \in 1..Len(CatalogPatterns) :
                LET ms == matchAll(files[k].content, CatalogPatterns[p].pattern, 0)
                IN \A j \in 1..(Len(ms) - 1) : ms[j].index < ms[j + 1].index

\* two files were scanned, the first with a security and a quality
\* finding, the second with quality, naming and duplication findings
C7_Witness ==
    /\ pc = "returned"
    /\ files = <<FileA, FileUtil>>
    /\ Len(findings) = 5

\* the findings of the call with a category, a title and a line
FindingsAt(category, title, line) ==
    {k \in 1..Len(findings) :
       /\ findings[k].category = category
       /\ findings[k].title = title
       /\ findings[k].line = line}

FindingsOfRule(category, title) ==
    {k \in 1..Len(findings) :
       findings[k].category = category /\ findings[k].title = title}

\* C8: for the single file a.js with content "eval('2+2')\nconsole.log(1)\n"
\* the result has exactly one security finding titled "Use of eval()", at
\* line 1, and exactly one quality finding titled "Console Statement", at
\* line 2.
C8_EvalAndConsole ==
    (pc = "returned" /\ files = <<FileA>>) =>
      /\ Cardinality(FindingsOfRule("security", "Use of eval()")) = 1
      /\ Cardinality(FindingsAt("security", "Use of eval()", 1)) = 1
      /\ Cardinality(FindingsOfRule("quality", "Console Statement")) = 1
      /\ Cardinality(FindingsAt("quality", "Console Statement", 2)) = 1

\* the call on the single file a.js has returned its two findings
C8_Witness ==
    /\ pc = "returned"
    /\ files = <<FileA>>
    /\ callNo = 1
    /\ Len(findings) = 2

\* C9 as stated: for the single file a.js the metrics are totalLines = 2,
\* languages = {js: 1} and testFiles = 0.
C9_MetricsAsStated ==
    (pc = "returned" /\ files = <<FileA>>) =>
      /\ metrics.totalLines = 2
      /\ metrics.languages = (<<"j", "s">> :> 1)
      /\ metrics.testFiles = 0

\* C9 amended: for the single file a.js the metrics are totalLines = 3 (the
\* content split on newline has three pieces, the last one empty),
\* languages = {js: 1} and testFiles = 0.
C9_Metrics ==
    (pc = "returned" /\ files = <<FileA>>) =>
      /\ metrics.totalLines = 3
      /\ metrics.languages = (<<"j", "s">> :> 1)
      /\ metrics.testFiles = 0

\* the call on the single file a.js has returned, all of it scanned
C9_Witness ==
    /\ pc = "returned"
    /\ files = <<FileA>>
    /\ idx = 1
    /\ metrics.totalFiles = 1

\* some position of the content at which the regex matches
HasMatch(content, re) ==
    \E i \in 0..Len(content) :
      ExecAt(re, 1, IF re.ignoreCase THEN toLowerCase(content) ELSE content, i)
        # NoMatch

\* a declaration of a one-letter variable outside the allow-list
HasPoorName(content) ==
    \E i \in 0..Len(content) :
      LET m == ExecAt(variableRegex, 1, toLowerCase(content), i) IN
      /\ m # NoMatch
      /\ m.g1[2] - m.g1[1] = 1
      /\ content[m.g1[1] + 1] \notin {"i", "j", "k", "x", "y", "z"}

\* a function declaration with more than 10 complexity indicators
HasComplexFunction(content) ==
    \E i \in 0..Len(content) :
      /\ ExecAt(functionRegex, 1, toLowerCase(content), i) # NoMatch
      /\ MatchCount(substring(content, i, findFunctionEnd(content, i)),
                    ComplexityIndicatorRegex) > 10

\* two lines with the same trimmed text, longer than 20 characters and not
\* a comment
HasDuplicateLine(content) ==
    LET lines == split(content, "\n") IN
    \E a, b \in 1..Len(lines) :
      /\ a < b
      /\ trim(lines[a]) = trim(lines[b])
      /\ Len(trim(lines[a])) > 20
      /\ ~startsWith(trim(lines[a]), <<"/", "/">>)
      /\ ~startsWith(trim(lines[a]), <<"*">>)

NothingMatches(content) ==
    /\ \A p \in 1..Len(CatalogPatterns) : ~HasMatch(content, CatalogPatterns[p].pattern)
    /\ ~HasComplexFunction(content)
    /\ ~HasPoorName(content)
    /\ ~HasDuplicateLine(content)

\* C10: a file whose content matches no security rule, no quality rule and
\* none of the complexity, naming and duplication heuristics contributes no
\* finding; in particular a file with empty content.
C10_NoMatchNoFinding ==
    (idx = 1 /\ Len(files) = 1) =>
      /\ NothingMatches(files[1].content) => findings = <<>>
      /\ files[1].content = <<>> => NothingMatches(files[1].content)

\* a file of more than 20 characters that matches no rule and no heuristic
\* was scanned
C10_Witness ==
    /\ idx = 1
    /\ Len(files) = 1
    /\ Len(files[1].content) > 20
    /\ NothingMatches(files[1].content)
    /\ findings = <<>>


---------------------------------------------------------------------------
(* Properties of the rules and heuristics. *)

\* the text of a call of the non-cryptographic random-number function
RandomCallText == <<"M","a","t","h",".","r","a","n","d","o","m","(",")">>

\* the offsets of content at which a call Math.random() starts
RandomCallOffsets(content) ==
    {i \in 0..(Len(content) - Len(RandomCallText)) :
       substring(content, i, i + Len(RandomCallText)) = RandomCallText}

\* C11: for every call Math.random() anywhere in a file's content the result
\* has a security finding titled "Weak Random Number Generation" with
\* severity medium at the line of the call, and the security summary lists
\* it as a vulnerability with CWE id 338.
C11_WeakRandomEveryCall ==
    pc = "returned" =>
      \A k \in 1..Len(files) : \A i \in RandomCallOffsets(files[k].content) :
        LET L == 1 + NewlinesBefore(files[k].content, i) IN
        /\ \E j \in 1..Len(findings) :
             /\ findings[j].title = "Weak Random Number Generation"
             /\ findings[j].category = "security"
             /\ findings[j].severity = "medium"
             /\ findings[j].file = files[k].path
             /\ findings[j].line = L
        /\ \E j \in 1..Len(security.vulnerabilities) :
             /\ security.vulnerabilities[j].title = "Weak Random Number Generation"
             /\ security.vulnerabilities[j].file = files[k].path
             /\ security.vulnerabilities[j].line = L
             /\ security.vulnerabilities[j].cweId = 338

\* the shape `function name(...) {` of a function declaration:
\* /function\s+(\w+)\s*\([^)]*\)\s*{/gi
FunctionDeclarationShape ==
    Regex(<<AltGroup(Lits(<<"f","u","n","c","t","i","o","n">>)
                     \o <<Ws1, Cls(WordChars, 1, TRUE), Ws0, Lit("("),
                          NotCls({")"}, 0, TRUE), Lit(")"), Ws0, Lit("{")>>,
                     10, 10)>>)

\* C12: for every function declaration of the shape `function name(...) {`
\* in a file there is a "High Cyclomatic Complexity" finding (category
\* maintainability) at its line if and only if the number of complexity
\* indicators in the function is greater than 10; its severity is medium
\* for 11 to 20 and high above 20, and its description names the function
\* and the count.
C12_ComplexityFindings ==
    pc = "returned" =>
      \A k \in 1..Len(files) :
        LET content == files[k].content
            decls   == matchAll(content, FunctionDeclarationShape, 0)
        IN \A d \in 1..Len(decls) :
             LET m     == decls[d]
                 name  == substring(content, m.g1[1], m.g1[2])
                 code  == substring(content, m.index,
                                    findFunctionEnd(content, m.index))
                 count == MatchCount(code, ComplexityIndicatorRegex)
                 L     == 1 + NewlinesBefore(content, m.index)
                 hits  == {j \in 1..Len(findings) :
                             /\ findings[j].title = "High Cyclomatic Complexity"
                             /\ findings[j].category = "maintainability"
                             /\ findings[j].file = files[k].path
                             /\ findings[j].line = L}
             IN /\ (hits # {}) <=> (count > 10)
                /\ \A j \in hits :
                     /\ findings[j].severity =
                          (IF count > 20 THEN "high" ELSE "medium")
                     /\ findings[j].description =
                          <<"Function '">> \o name
                          \o <<"' has high complexity (">>
                          \o NumberToString(count) \o <<")">>

\* the declaration keywords, lower case
DeclarationKeywords ==
    {<<"v","a","r">>, <<"l","e","t">>, <<"c","o","n","s","t">>}

NoDeclaration == [from |-> -1, to |-> -1]

\* the name declared by a declaration that starts at offset i of content
\* (keyword, white space, identifier), as the offsets of the name
DeclaredNameAt(content, i) ==
    LET low == toLowerCase(content)
        kws == {kw \in DeclarationKeywords :
                  /\ i + Len(kw) <= Len(low)
                  /\ SubSeq(low, i + 1, i + Len(kw)) = kw}
    IN IF kws = {} THEN NoDeclaration
       ELSE LET a    == i + Len(CHOOSE kw \in kws : TRUE)
                rest == {j \in a..(Len(low) - 1) : low[j + 1] \notin WhiteSpace}
            IN IF rest = {} THEN NoDeclaration
               ELSE LET b    == SetMin(rest)
                        ends == {j \in b..(Len(low) - 1) : low[j + 1] \notin IdentPart}
                        e    == IF ends = {} THEN Len(low) ELSE SetMin(ends)
                    IN IF b = a \/ low[b + 1] \notin IdentStart
                       THEN NoDeclaration
                       ELSE [from |-> b, to |-> e]

\* the declarations of content from offset `from` on, left to right, each
\* starting after the name of the one before: their lines and names
RECURSIVE DeclarationsFrom(_, _)
DeclarationsFrom(content, from) ==
    LET at == {i \in from..(Len(content) - 1) :
                 DeclaredNameAt(content, i) # NoDeclaration}
    IN IF at = {} THEN <<>>
       ELSE LET i == SetMin(at)
                d == DeclaredNameAt(content, i)
            IN << [line |-> 1 + NewlinesBefore(content, i),
                   name |-> substring(content, d.from, d.to)] >>
               \o DeclarationsFrom(content, d.to)

\* the declarations whose name is a single character other than i, j, k,
\* x, y, z
PoorlyNamed(decls) ==
    SelectSeq(decls, LAMBDA d :
        /\ Len(d.name) = 1
        /\ d.name[1] \notin {"i", "j", "k", "x", "y", "z"})

\* C13: for every var/let/const declaration there is a "Poor Variable
\* Naming" finding (severity low, category maintainability, description
\* naming the variable, at the declaration's line) if and only if the
\* declared name has length 1 and is not one of i, j, k, x, y, z: the naming
\* findings are exactly the poorly named declarations, in order.
C13_NamingFindings ==
    pc = "loop" =>
      LET got  == FindingsTitled("Poor Variable Naming")
          want == Flatten([k \in 1..idx |->
                     LET poor == PoorlyNamed(DeclarationsFrom(files[k].content, 0))
                     IN [j \in 1..Len(poor) |->
                           [file |-> files[k].path, line |-> poor[j].line,
                            name |-> poor[j].name]]])
      IN /\ Len(got) = Len(want)
         /\ \A j \in 1..Len(got) :
              /\ got[j].file = want[j].file
              /\ got[j].line = want[j].line
              /\ got[j].severity = "low"
              /\ got[j].category = "maintainability"
              /\ got[j].description =
                   <<"Variable '">> \o want[j].name
                   \o <<"' has a non-descriptive name">>

\* `let q` gave one finding and `let x` none: the file of declarations of
\* q, x, Z and $ was scanned and has three naming findings
C13_Witness ==
    /\ pc = "loop"
    /\ idx = 1
    /\ files[1] = FileNames
    /\ Len(FindingsTitled("Poor Variable Naming")) = 3
    /\ FindingsTitled("Poor Variable Naming")[1].line = 1

\* the elements of a finite set of integers in increasing order
RECURSIVE SortedSeq(_)
SortedSeq(S) ==
    IF S = {} THEN <<>> ELSE <<SetMin(S)>> \o SortedSeq(S \ {SetMin(S)})

\* the groups of 1-based line numbers of content whose trimmed text is the
\* same, longer than 20 characters, no comment line, on more than one line
DuplicateGroups(content) ==
    LET lines == split(content, "\n")
        T     == [n \in 1..Len(lines) |-> trim(lines[n])]
        long  == {n \in 1..Len(lines) :
                    /\ Len(T[n]) > 20
                    /\ ~(Len(T[n]) >= 2 /\ T[n][1] = "/" /\ T[n][2] = "/")
                    /\ T[n][1] # "*"}
        all   == {{n \in long : T[n] = T[m]} : m \in long}
    IN {g \in all : Cardinality(g) > 1}

\* C14: there is exactly one "Code Duplication" finding for each distinct
\* trimmed line text that is longer than 20 characters, does not start with
\* `//` or `*` and occurs on more than one line; its line is the first
\* occurrence and its description lists every occurrence's line number in
\* increasing order.  Shorter lines, comment lines and texts occurring once
\* give none.
C14_DuplicationFindings ==
    pc = "loop" =>
      LET got == FindingsTitled("Code Duplication")
          groups == [k \in 1..idx |-> DuplicateGroups(files[k].content)]
          Expected(k, g) ==
              LET ns == SortedSeq(g)
                  lines == split(files[k].content, "\n")
              IN {j \in 1..Len(got) :
                    /\ got[j].file = files[k].path
                    /\ got[j].line = ns[1]
                    /\ got[j].codeSnippet = trim(lines[ns[1]])
                    /\ got[j].category = "maintainability"
                    /\ got[j].severity = "medium"
                    /\ got[j].description =
                         <<"Identical code found on lines ">>
                         \o join([n \in 1..Len(ns) |-> NumberToString(ns[n])],
                                 <<",", " ">>)}
      IN /\ \A k \in 1..idx : \A g \in groups[k] :
              Cardinality(Expected(k, g))
                = Cardinality({h \in 1..idx : files[h] = files[k]})
         /\ Len(got) = Len(Flatten([k \in 1..idx |-> SortedSeq(
                           {SetMin(g) : g \in groups[k]})]))

\* the file with a long line on lines 3 and 7 was scanned: one finding, at
\* line 3
C14_Witness ==
    /\ pc = "loop"
    /\ idx = 1
    /\ files[1] = FileDup
    /\ Len(FindingsTitled("Code Duplication")) = 1
    /\ FindingsTitled("Code Duplication")[1].line = 3


---------------------------------------------------------------------------
(* Properties of the metrics and the summaries. *)

\* the positions of the dots of a name
DotsOf(name) == {i \in 1..Len(name) : name[i] = "."}

\* the lowercased text after the last dot of a name that has one
ExtensionAfterLastDot(name) ==
    LET last == CHOOSE i \in DotsOf(name) : \A j \in DotsOf(name) : j <= i
    IN toLowerCase(SubSeq(name, last + 1, Len(name)))

\* the input files that have an extension
FilesWithExtension ==
    {k \in 1..Len(files) :
       DotsOf(files[k].name) # {} /\ ExtensionAfterLastDot(files[k].name) # <<>>}

\* C15: a file whose name contains no `.` adds no entry to
\* metrics.languages and increments no counter; a file with an extension
\* increments exactly the counter keyed by the lowercased text after the
\* last `.`.
C15_LanguageCounters ==
    pc = "returned" =>
      LET exts == {ExtensionAfterLastDot(files[k].name) : k \in FilesWithExtension}
      IN /\ DOMAIN metrics.languages = exts
         /\ \A e \in exts :
              metrics.languages[e] =
                Cardinality({k \in FilesWithExtension :
                               ExtensionAfterLastDot(files[k].name) = e})

\* a name holds the four given characters in a row, compared exactly
HoldsWord(name, a, b, c, d) ==
    \E i \in 1..(Len(name) - 3) :
      name[i] = a /\ name[i + 1] = b /\ name[i + 2] = c /\ name[i + 3] = d

\* C16: metrics.testFiles is the number of input files whose name contains
\* "test" or "spec", compared case-sensitively; "Test.js" and "SPEC.ts" are
\* not counted and a name with both is counted once.
C16_TestFiles ==
    pc = "returned" =>
      metrics.testFiles =
        Cardinality({k \in 1..Len(files) :
                       \/ HoldsWord(files[k].name, "t", "e", "s", "t")
                       \/ HoldsWord(files[k].name, "s", "p", "e", "c")})

\* Test.js and a.test.spec.ts were analyzed and one test file was counted
C16_Witness ==
    /\ pc = "returned"
    /\ files = <<FileUpperTest, FileTestSpec>>
    /\ metrics.testFiles = 1

\* the CWE id of each security rule, by title
CweOfTitle(t) ==
    CASE t = "Use of eval()" -> 95
      [] t = "Potential XSS via innerHTML" -> 79
      [] t = "Use of document.write()" -> 79
      [] t = "Potential SQL Injection" -> 89
      [] t = "Hardcoded Password" -> 798
      [] t = "Weak Random Number Generation" -> 338

\* C17: security.vulnerabilities has exactly one record for each finding of
\* category security, in the order of those findings, with the finding's
\* title, severity, file and line and the CWE id of the rule with that
\* title; its length is critical + high + medium + low.
C17_Vulnerabilities ==
    pc = "returned" =>
      LET sf == SelectSeq(findings, LAMBDA f : f.category = "security")
          vs == security.vulnerabilities
      IN /\ Len(vs) = Len(sf)
         /\ \A j \in 1..Len(vs) :
              /\ vs[j].title = sf[j].title
              /\ vs[j].severity = sf[j].severity
              /\ vs[j].file = sf[j].file
              /\ vs[j].line = sf[j].line
              /\ vs[j].cweId = CweOfTitle(sf[j].title)
         /\ Len(vs) = security.critical + security.high
                      + security.medium + security.low

\* a result whose vulnerabilities come from two files and carry three
\* different CWE ids
C17_Witness ==
    /\ pc = "returned"
    /\ files = <<FileDb, FileLogin>>
    /\ Len(security.vulnerabilities) = 5
    /\ {security.vulnerabilities[j].cweId :
          j \in 1..Len(security.vulnerabilities)} = {89, 79, 798, 338}


\* C18: for every non-empty input list coverage.overall is the integer part
\* of 100 * testFiles / totalFiles clamped to the range 30..95; it lies
\* between 30 and 95 and does not depend on the random jitter.
C18_OverallCoverage ==
    (pc = "returned" /\ Len(files) > 0) =>
      /\ coverage.overall.kind = "fin"
      /\ IntegerValue(coverage.overall) =
           Min(Max((100 * metrics.testFiles) \div metrics.totalFiles, 30), 95)


\* the findings and metrics of a call on the input list fs that runs alone
\* on a freshly constructed analyzer
RECURSIVE AloneFrom(_, _, _, _, _)
AloneFrom(fs, k, fnd, m, li) ==
    IF k > Len(fs) THEN [findings |-> fnd, metrics |-> m]
    ELSE AloneFrom(fs, k + 1, fnd \o analyzeFile(fs[k], li),
                   UpdateMetrics(m, fs[k]), CatalogLastIndexAfter(fs[k], li))

RunAlone(fs) ==
    AloneFrom(fs, 1, <<>>, InitialMetrics(fs), [t \in CatalogTitles |-> 0])

SameResult(fnd, m, alone) ==
    /\ fnd = alone.findings
    /\ m.totalLines = alone.metrics.totalLines
    /\ m.totalFiles = alone.metrics.totalFiles
    /\ m.languages = alone.metrics.languages
    /\ m.testFiles = alone.metrics.testFiles
    /\ m.complexity = alone.metrics.complexity

\* C19: two analyzeFiles calls on the same instance that interleave at
\* their await points each return the findings and the totalLines,
\* totalFiles, languages, testFiles and complexity the call would return
\* had it run alone, and the shared rule catalog is never modified.
C19_Isolation ==
    /\ (pc = "returned" /\ callNo = 1) =>
          SameResult(findings, metrics, RunAlone(files))
    /\ peer.pc = "returned" =>
          SameResult(peer.findings, peer.metrics, RunAlone(peer.files))
    /\ lastIndex = [t \in CatalogTitles |-> 0]

\* both calls have returned, each the three findings of its own two files
C19_Witness ==
    /\ pc = "returned"
    /\ callNo = 1
    /\ peer.pc = "returned"
    /\ files = <<FileEvalQ, FileDebugIf>>
    /\ peer.files = <<FileDebugIf, FileEvalQ>>
    /\ Len(findings) = 3
    /\ Len(peer.findings) = 3

\* the findings of the call that no duplication rule emitted
NonDuplication == SelectSeq(findings, LAMBDA f : f.title # "Code Duplication")

\* C20: among the findings of non-duplication rules of one analyzeFiles
\* result, two findings that differ in file path, in rule or in line have
\* different ids.
C20_IdPerPathRuleLine ==
    \A i, j \in 1..Len(NonDuplication) :
      LET f == NonDuplication[i]
          g == NonDuplication[j]
      IN (f.file # g.file \/ f.rule # g.rule \/ f.line # g.line) => f.id # g.id

\* a result with findings that differ in the line only, in the rule only
\* and in the path only, the one path being the other followed by "_1"
C20_Witness ==
    /\ pc = "returned"
    /\ \E i, j \in 1..Len(NonDuplication) :
         LET f == NonDuplication[i]
             g == NonDuplication[j]
         IN f.file = g.file /\ f.rule = g.rule /\ f.line # g.line
    /\ \E i, j \in 1..Len(NonDuplication) :
         LET f == NonDuplication[i]
             g == NonDuplication[j]
         IN f.file = g.file /\ f.rule # g.rule /\ f.line = g.line
    /\ \E i, j \in 1..Len(NonDuplication) :
         LET f == NonDuplication[i]
             g == NonDuplication[j]
         IN /\ f.file = <<"p">>
            /\ g.file = <<"p","_","1">>
            /\ f.rule = g.rule
            /\ f.line = g.line

---------------------------------------------------------------------------
(* Properties of the snippets, the metrics and the ids. *)

\* the lines of the content of the input file with a path
LinesOfPath(path) ==
    split(files[CHOOSE k \in 1..Len(files) : files[k].path = path].content, "\n")

\* the findings of the call whose snippet is cut out around their line
SnippetFindings == SelectSeq(findings, LAMBDA f : f.title # "Code Duplication")

\* C21: for a finding at line L of a file with n lines produced by a
\* security, quality, complexity or naming rule, codeSnippet is the source
\* lines max(1, L-2) through min(n, L+2) joined by newlines: it contains
\* line L, has at most 5 lines, and reads nothing outside the file.
C21_CodeSnippet ==
    \A i \in 1..Len(SnippetFindings) :
      LET f     == SnippetFindings[i]
          lines == LinesOfPath(f.file)
          n     == Len(lines)
          L     == f.line
          lo    == Max(1, L - 2)
          hi    == Min(n, L + 2)
          got   == split(f.codeSnippet, "\n")
      IN /\ 1 <= lo /\ lo <= L /\ L <= hi /\ hi <= n
         /\ Len(got) = hi - lo + 1
         /\ Len(got) <= 5
         /\ \A k \in 1..Len(got) : got[k] = lines[lo + k - 1]

\* one result holds a finding on the first line, one on the last line and
\* one in the middle of a file, whose snippet has the full five lines
C21_Witness ==
    /\ pc = "returned"
    /\ \E i, j \in 1..Len(SnippetFindings) :
         /\ SnippetFindings[i].line = 1
         /\ Len(split(SnippetFindings[i].codeSnippet, "\n")) = 3
         /\ SnippetFindings[j].line = 4
         /\ Len(split(SnippetFindings[j].codeSnippet, "\n")) = 5

\* the metrics analyzeFiles accumulates over the list fs
RECURSIVE MetricsFrom(_, _, _)
MetricsFrom(fs, k, m) ==
    IF k > Len(fs) THEN m ELSE MetricsFrom(fs, k + 1, UpdateMetrics(m, fs[k]))

MetricsOf(fs) == MetricsFrom(fs, 1, InitialMetrics(fs))

\* the keywords counted for metrics.complexity, in lowercase
ComplexityKeywords ==
    << <<"i","f">>, <<"f","o","r">>, <<"w","h","i","l","e">>,
       <<"s","w","i","t","c","h">>, <<"c","a","t","c","h">> >>

\* the length of the keyword that starts at index i of content, 0 if none
\* does (no keyword starts another keyword, so at most one does)
KeywordLengthAt(content, i) ==
    LET hits == {k \in 1..Len(ComplexityKeywords) :
                   /\ i + Len(ComplexityKeywords[k]) <= Len(content)
                   /\ toLowerCase(SubSeq(content, i + 1, i + Len(ComplexityKeywords[k])))
                        = ComplexityKeywords[k]}
    IN IF hits = {} THEN 0 ELSE Len(ComplexityKeywords[CHOOSE k \in hits : TRUE])

\* the number of case-insensitive matches of if|for|while|switch|catch in
\* content from index i on: matches are taken left to right and do not overlap
RECURSIVE KeywordMatchesFrom(_, _)
KeywordMatchesFrom(content, i) ==
    IF i >= Len(content) THEN 0
    ELSE IF KeywordLengthAt(content, i) > 0
         THEN 1 + KeywordMatchesFrom(content, i + KeywordLengthAt(content, i))
         ELSE KeywordMatchesFrom(content, i + 1)

\* the sum of a file's contribution over a list
RECURSIVE SumOfLines(_)
SumOfLines(fs) ==
    IF fs = <<>> THEN 0 ELSE Len(split(fs[1].content, "\n")) + SumOfLines(Tail(fs))

RECURSIVE SumOfKeywordMatches(_)
SumOfKeywordMatches(fs) ==
    IF fs = <<>> THEN 0
    ELSE KeywordMatchesFrom(fs[1].content, 0) + SumOfKeywordMatches(Tail(fs))

\* a counter of languages, 0 for a language that has none
LanguageCounter(m, e) == IF e \in DOMAIN m.languages THEN m.languages[e] ELSE 0

\* the value under a key of languages is a number (and not a string)
IsNumberCounter(e) == e # ConstructorKey

\* C22: metrics accumulate additively over files: for any two file lists A
\* and B, analyzeFiles(A followed by B) has totalFiles, totalLines,
\* testFiles, complexity and every languages counter equal to the sum of
\* the values of analyzeFiles(A) and analyzeFiles(B); a file adds the length
\* of its content split on newline to totalLines and its number of
\* case-insensitive matches of if|for|while|switch|catch to complexity.
C22_MetricsAdditive ==
    pc = "returned" =>
      /\ metrics.totalLines = SumOfLines(files)
      /\ metrics.complexity = SumOfKeywordMatches(files)
      /\ \A k \in 0..Len(files) :
           LET a == MetricsOf(SubSeq(files, 1, k))
               b == MetricsOf(SubSeq(files, k + 1, Len(files)))
           IN /\ metrics.totalFiles = a.totalFiles + b.totalFiles
              /\ metrics.totalLines = a.totalLines + b.totalLines
              /\ metrics.testFiles = a.testFiles + b.testFiles
              /\ metrics.complexity = a.complexity + b.complexity
              /\ \A e \in DOMAIN metrics.languages \cup DOMAIN a.languages
                            \cup DOMAIN b.languages :
                   /\ IsNumberCounter(e)
                   /\ metrics.languages[e] =
                        LanguageCounter(a, e) + LanguageCounter(b, e)

\* the index of the first opening brace of content at or after index start,
\* Len(content) if there is none
OpeningBrace(content, start) ==
    LET at == {i \in start..(Len(content) - 1) : content[i + 1] = "{"} IN
    IF at = {} THEN Len(content) ELSE SetMin(at)

\* the brace depth after the character at index i, counted from the opening
\* brace at index open
Depth(content, open, i) ==
    Cardinality({j \in open..i : content[j + 1] = "{"})
      - Cardinality({j \in open..i : content[j + 1] = "}"})

\* the indices after the opening brace at which the depth is back to zero
Closings(content, open) ==
    {i \in (open + 1)..(Len(content) - 1) : Depth(content, open, i) = 0}

\* C23: findFunctionEnd(content, start) returns the index of the closing
\* brace that matches the first opening brace at or after start: the
\* smallest index at which the brace depth, counted from that opening
\* brace, returns to zero; when there is no such point it returns
\* content.length.
C23_FunctionEnd ==
    (probe.fn = "findFunctionEnd" /\ probe.done) =>
      LET content == probe.content
          open    == OpeningBrace(content, probe.startIndex)
          ends    == Closings(content, open)
      IN probe.result = IF ends = {} THEN Len(content) ELSE SetMin(ends)

\* the catalog rules of a category that carry a title
RulesTitled(category, title) ==
    LET rules == IF category = "security" THEN securityPatterns
                 ELSE IF category = "quality" THEN qualityPatterns
                 ELSE <<>>
    IN {rules[k] : k \in {j \in 1..Len(rules) : rules[j].title = title}}

\* C24: every finding of an analyzeFiles result has file equal to the path
\* of one input file, a line between 1 and the number of lines of that
\* file's content, a category in {security, quality, maintainability} and,
\* if it is a security or quality finding, the severity and recommendation
\* of the catalog rule with its title.
C24_FindingFields ==
    \A i \in 1..Len(findings) :
      LET f == findings[i] IN
      /\ \E k \in 1..Len(files) :
           /\ f.file = files[k].path
           /\ 1 <= f.line
           /\ f.line <= Len(split(files[k].content, "\n"))
      /\ f.category \in {"security", "quality", "maintainability"}
      /\ f.category \in {"security", "quality"} =>
           /\ Cardinality(RulesTitled(f.category, f.title)) = 1
           /\ \A r \in RulesTitled(f.category, f.title) :
                /\ f.severity = r.severity
                /\ f.recommendation = r.recommendation

\* a result with a finding of each category, one of them past the first line
C24_Witness ==
    /\ pc = "returned"
    /\ \E i, j, k \in 1..Len(findings) :
         /\ findings[i].category = "security"
         /\ findings[j].category = "quality"
         /\ findings[j].line > 1
         /\ findings[k].category = "maintainability"
         /\ findings[k].title = "Code Duplication"

\* C25: no two findings in the list returned by one analyzeFile call have
\* the same id, also when one rule matches more than once on a line.  With
\* an input list of one file, the findings of the call are the list of its
\* one analyzeFile call.
C25_IdsDistinctInFile ==
    Len(files) = 1 =>
      \A i, j \in 1..Len(findings) : i # j => findings[i].id # findings[j].id

\* a coverage figure is a percentage
IsPercentage(x) ==
    /\ x.kind = "fin"
    /\ 0 <= IntegerValue(x)
    /\ IntegerValue(x) <= 100

\* C26: for every non-empty input list and every value of the random
\* jitter, all coverage figures returned by analyzeFiles (overall, lines,
\* functions, branches, and each per-file coverage, lines and functions)
\* are percentages between 0 and 100 inclusive, and the per-file list has
\* exactly one entry per input file, in input order, keyed by the path.
C26_CoveragePercentages ==
    (pc = "returned" /\ Len(files) > 0) =>
      /\ IsPercentage(coverage.overall)
      /\ IsPercentage(coverage.lines)
      /\ IsPercentage(coverage.functions)
      /\ IsPercentage(coverage.branches)
      /\ Len(coverage.files) = Len(files)
      /\ \A k \in 1..Len(files) :
           /\ coverage.files[k].path = files[k].path
           /\ IsPercentage(coverage.files[k].coverage)
           /\ IsPercentage(coverage.files[k].lines)
           /\ IsPercentage(coverage.files[k].functions)

\* the sum of the counters of languages under the keys S
RECURSIVE SumOfCounters(_, _)
SumOfCounters(m, S) ==
    IF S = {} THEN 0
    ELSE LET e == CHOOSE x \in S : TRUE
         IN m.languages[e] + SumOfCounters(m, S \ {e})

\* C30: in every analyzeFiles result metrics.testFiles does not exceed
\* metrics.totalFiles, the sum of all metrics.languages counters does not
\* exceed metrics.totalFiles, and metrics.duplicateLines is 0, however many
\* "Code Duplication" findings were emitted.
C30_MetricsBounds ==
    pc = "returned" =>
      /\ metrics.testFiles <= metrics.totalFiles
      /\ \A e \in DOMAIN metrics.languages : IsNumberCounter(e)
      /\ SumOfCounters(metrics, DOMAIN metrics.languages) <= metrics.totalFiles
      /\ metrics.duplicateLines = 0

---------------------------------------------------------------------------
(* Properties of the mock service. *)

\* the runs that the calls have added to the run store, the ones
\* getAnalysisRun finds
AddedRuns == Range(mockRuns) \ Range(InitialRuns)

\* the place of a status in queued -> running -> succeeded
StatusRank(status) ==
    CASE status = "queued" -> 0
      [] status = "running" -> 1
      [] status = "succeeded" -> 2

\* the counters of a run that has begun are within their totals
RunWithinTotals(run) ==
    "progress" \in DOMAIN run =>
        /\ run.filesProcessed <= run.totalFiles
        /\ run.progress <= 100

\* a run that has succeeded shows progress 100
SucceededAtHundred(run) == run.status = "succeeded" => run.progress = 100

\* a step moves no status backwards and changes no run that has succeeded
RunsMoveForward ==
    \A r \in AddedRuns :
        /\ StatusRank(objects'[r].status) >= StatusRank(objects[r].status)
        /\ objects[r].status = "succeeded" => objects'[r] = objects[r]

\* C28: every run created by startAnalysis that getAnalysisRun returns has
\* filesProcessed <= totalFiles and progress <= 100 after every tick of its
\* progress timer; its status only moves queued -> running -> succeeded;
\* once succeeded its progress is 100 and its fields never change again.
C28_RunProgress ==
    /\ [](\A r \in AddedRuns :
            RunWithinTotals(objects[r]) /\ SucceededAtHundred(objects[r]))
    /\ [][RunsMoveForward]_vars

\* C27: at every moment a project of the store whose lastRunId is set has
\* lastRunStatus equal to the status of the run with that id, for every
\* interleaving of startAnalysis calls and their timer callbacks.
C27_ProjectFollowsLastRun ==
    \A p \in Range(mockProjects) :
        "lastRunId" \in DOMAIN objects[p] =>
            objects[p].lastRunStatus = objects[objects[p].lastRunId].status

\* the projects that a resolved deleteProject has removed: projects are
\* created in the store and only deleteProject takes them out
DeletedProjects ==
    {p \in DOMAIN objects : p[1] = "proj" /\ p \notin Range(mockProjects)}

\* C29: once deleteProject(id) has resolved the run store holds no run whose
\* projectId is id, whatever timers of earlier uploadFiles, cloneRepository
\* or startAnalysis calls were pending; every run of the store refers to a
\* project of the project store.
C29_NoRunOfDeletedProject ==
    \A r \in Range(mockRuns) :
        /\ objects[r].projectId \notin DeletedProjects
        /\ objects[r].projectId \in Range(mockProjects)

====
